---- MODULE Spec2Model ----
(***************************************************************************)
(* Seat Heater Control System (FreeRTOS, TM4C123GH6PM): the tasks and      *)
(* interrupt handlers of main.c as a state machine.                        *)
(*                                                                         *)
(* Every per-seat global of main.c (ucDriverX / ucPassengerX) is one       *)
(* function over Seats, ucX[s].  A task is a program counter and its       *)
(* locals; one action is one statement (or one kernel call) of the task.   *)
(* The kernel's scheduler is abstracted to arbitrary interleaving of the   *)
(* tasks that are not blocked, which contains every schedule of the        *)
(* preemptive fixed-priority kernel; interrupt handlers run to completion  *)
(* in one step.                                                            *)
(***************************************************************************)
EXTENDS Integers, Sequences, FiniteSets, TLC

(*************************** program constants *****************************)
mainHEATER_STATE_OFF == 0
mainHEATER_STATE_LOW == 1
mainHEATER_STATE_MEDIUM == 2
mainHEATER_STATE_HIGH == 3

mainHEATING_LEVEL_OFF == 0
mainHEATING_LEVEL_LOW == 1
mainHEATING_LEVEL_MEDIUM == 2
mainHEATING_LEVEL_HIGH == 3

mainTEMP_MAX_VALID_RANGE == 40
mainTEMP_MIN_VALID_RANGE == 5

mainDESIRED_TEMP_OFF == 0
mainDESIRED_TEMP_LOW == 25
mainDESIRED_TEMP_MEDIUM == 30
mainDESIRED_TEMP_HIGH == 35

mainTEMP_OVER_RANGE_FAIL == 68
mainTEMP_UNDER_RANGE_FAIL == 85
mainDRIVER_SEAT_FAIL == 102
mainPASSENGER_SEAT_FAIL == 119

mainDIAGNOSTIC_SIZE == 5

mainTEMP_DIFF_LOW_THRESHOLD == 2
mainTEMP_DIFF_MEDIUM_THRESHOLD == 5
mainTEMP_DIFF_HIGH_THRESHOLD == 10

mainTOTAL_HEATING_LEVELS == 4

mainSW1_INTERRUPT_BIT == 1
mainSW2_INTERRUPT_BIT == 1
mainSW3_INTERRUPT_BIT == 2

\* xQueueCreate(3, sizeof(xFailureLog))
uxQueueLength == 3

\* uint8 ucPrevDriverHeaterState = 0xFF
ucPrevHeaterStateInit == 255

\* uint8 arithmetic
UINT8 == 256

(******************************* bounds ************************************)
\* fault edges the environment produces per seat (caps the timer and the log)
\* in the seat and control specifications
MaxFaults == 1
\* fault edges per seat in the fault specifications: two, so that a second
\* edge can follow a recovery before the diagnostic task has run
MaxFaultEdges == 2
\* fault edges of the seat of the logging specification: more than
\* mainDIAGNOSTIC_SIZE, so that the diagnostic array fills up
MaxLogFaults == 6
\* control edges of the seat in the fair seat specification
MaxFairEdges == 1
\* control edges of the seat in the seat specification
MaxSeatEdges == 2
\* control edges of the seat in the scenario specification: up to level High
MaxScenarioEdges == 3
\* control edges of the seat in the level-cycle specification: once round
MaxCycleEdges == 4
\* cap of the count of LED writes during one fault
MaxFaultWrites == 2

(******************************** names ************************************)
Seats == {"Driver", "Passenger"}

\* the four field mutexes of a seat, in the order the heater task takes them
DesiredTempMutex == "DesiredTemp"
HeaterStateMutex == "HeaterState"
HeatingLevelMutex == "HeatingLevel"
TempValueMutex == "TempValue"
Mutexes == {DesiredTempMutex, HeaterStateMutex, HeatingLevelMutex, TempValueMutex}

\* the tasks that take field mutexes
SensorTask == "Sensor"
ButtonTask == "Button"
HeaterTask == "Heater"
DiagnosticTask == "Diagnostic"
NoTask == "none"

\* pins of the raw interrupt status registers
PF0 == "PF0"
PF4 == "PF4"
PB1 == "PB1"

\* the pins whose edges increment the heating level of seat s: SW1 (PF4) and
\* SW3 (PB1) for the driver, SW2 (PF0) for the passenger
SwitchesOf(s) == IF s = "Driver" THEN {PF4, PB1} ELSE {PF0}

\* samples the temperature sensor (a potentiometer, 0..45 degrees) delivers
TempSamples == {4, 5, 22, 25, 29, 32, 33, 40, 41, 45}

VARIABLES
    ucHeatingLevel,           \* [seat -> 0..3]        written by the ISRs
    ucDesiredTemperature,     \* [seat -> uint8]       written by the button tasks
    ucTemperatureValue,       \* [seat -> uint8]       written by the sensor tasks
    ucHeaterState,            \* [seat -> 0..3]        heater and diagnostic tasks
    ucErrorFlag,              \* [seat -> BOOLEAN]     written by the sensor tasks
    xDiagnosticArray,         \* [0..mainDIAGNOSTIC_SIZE-1 -> xFailureLog]
    ucDiagnosticIndex,        \* uint8
    xOverrun,                 \* indices >= mainDIAGNOSTIC_SIZE written through xDiagnosticArray
    xMutex,                   \* [seat -> [mutex -> holder task or NoTask]]
    xErrorReportSemaphore,    \* [seat -> 0..1]        binary semaphore
    xDiagnosticQueue,         \* [seat -> Seq(xFailureLog)], at most uxQueueLength long
    xButtonsEventGroup,       \* [seat -> set of event bits]
    ledRed, ledGreen, ledBlue,\* [seat -> BOOLEAN]     the LED pins of the seat
    pcSensor, pcButton, pcHeater, pcDiagnostic,   \* [seat -> label]
    xlogSensor,               \* [seat -> xFailureLog] local xlog of the sensor task
    xlogDiagnostic,           \* [seat -> xFailureLog] local xlog of the diagnostic task
    ucPrevHeaterState,        \* [seat -> uint8]       local of the heater task
    uiTimer,                  \* value the next GPTM_WTimer0Read() returns
    faultBudget,              \* [seat -> Nat] fault edges the environment may still produce
    sensorInputs,             \* samples the environment delivers in this run
    running,                  \* seats whose tasks and switches are exercised in this run
    edgeBudget                \* control edges the environment may still produce, or Unbounded

vars == <<ucHeatingLevel, ucDesiredTemperature, ucTemperatureValue, ucHeaterState,
          ucErrorFlag, xDiagnosticArray, ucDiagnosticIndex, xOverrun, xMutex,
          xErrorReportSemaphore, xDiagnosticQueue, xButtonsEventGroup,
          ledRed, ledGreen, ledBlue, pcSensor, pcButton, pcHeater, pcDiagnostic,
          xlogSensor, xlogDiagnostic, ucPrevHeaterState,
          uiTimer, faultBudget, sensorInputs, running, edgeBudget>>

\* groups of variables, for UNCHANGED
fieldVars == <<ucHeatingLevel, ucDesiredTemperature, ucTemperatureValue, ucHeaterState, ucErrorFlag>>
diagVars == <<xDiagnosticArray, ucDiagnosticIndex, xOverrun>>
ledVars == <<ledRed, ledGreen, ledBlue>>
pcVars == <<pcSensor, pcButton, pcHeater, pcDiagnostic>>
localVars == <<xlogSensor, xlogDiagnostic, ucPrevHeaterState>>
envVars == <<uiTimer, faultBudget, sensorInputs, running, edgeBudget>>

\* the display task and the run-time measurement task
DisplayTask == "Display"
RunTimeTask == "RunTime"

VARIABLES
    xDisplayScreenMutex,      \* holder task or NoTask
    pcDisplay, pcRunTime,     \* label
    xDisplayPrev              \* [seat -> the ucPrev... locals of the display task]

reportVars == <<xDisplayScreenMutex, pcDisplay, pcRunTime, xDisplayPrev>>

\* The value of the port data register that a Dio_WriteChannel of the heater
\* task of a seat has read and not yet written back (SET_BIT / CLEAR_BIT on
\* *Port_Ptr): the levels of the three LED pins of the seat's port.
VARIABLE xPortCopy

\* the levels of the LED pins of the port of seat s
PortData(s) == [red |-> ledRed[s], green |-> ledGreen[s], blue |-> ledBlue[s]]

\* uint8 ucPrevDriverHeaterState = 0xFF, ... (lines 970-972)
xDisplayPrevInit == [level |-> 255, temp |-> 255, state |-> 255]

(* xFailureLog: a zero-initialised element of the global array *)
xFailureLogZero ==
    [uiTimeStamp |-> 0, ucFailureCode |-> 0, ucFailureSeat |-> 0, ucHeatingLevel |-> 0]

ucFailureSeatOf(s) ==
    IF s = "Driver" THEN mainDRIVER_SEAT_FAIL ELSE mainPASSENGER_SEAT_FAIL

\* the range check with the lower boundary taken as out of range
OutOfRangeLowerExclusive(t) ==
    t > mainTEMP_MAX_VALID_RANGE \/ t <= mainTEMP_MIN_VALID_RANGE

\* the range check with the upper boundary taken as out of range
OutOfRangeUpperExclusive(t) ==
    t >= mainTEMP_MAX_VALID_RANGE \/ t < mainTEMP_MIN_VALID_RANGE

\* if ((temp > mainTEMP_MAX_VALID_RANGE) || (temp < mainTEMP_MIN_VALID_RANGE))
OutOfRange(t) ==
    t > mainTEMP_MAX_VALID_RANGE \/ t < mainTEMP_MIN_VALID_RANGE

(******************************** Init *************************************)
\* no bound on the control edges of a run
Unbounded == 0 - 1

\* a binary semaphore created already available
xSemaphoreCreateBinaryGiven == [s \in Seats |-> 1]

\* xSemaphoreCreateBinary(): the semaphore is created empty (not available)
xSemaphoreCreateBinary == [s \in Seats |-> 0]

InitEdges(seats, budget, inputs, edges) ==
    /\ ucHeatingLevel = [s \in Seats |-> 0]
    /\ ucDesiredTemperature = [s \in Seats |-> 0]
    /\ ucTemperatureValue = [s \in Seats |-> 0]
    /\ ucHeaterState = [s \in Seats |-> mainHEATER_STATE_OFF]
    /\ ucErrorFlag = [s \in Seats |-> FALSE]
    /\ xDiagnosticArray = [i \in 0..(mainDIAGNOSTIC_SIZE - 1) |-> xFailureLogZero]
    /\ ucDiagnosticIndex = 0
    /\ xOverrun = {}
    /\ xMutex = [s \in Seats |-> [m \in Mutexes |-> NoTask]]
    /\ xErrorReportSemaphore = xSemaphoreCreateBinary
    /\ xDiagnosticQueue = [s \in Seats |-> <<>>]
    /\ xButtonsEventGroup = [s \in Seats |-> {}]
    /\ ledRed = [s \in Seats |-> FALSE]
    /\ ledGreen = [s \in Seats |-> FALSE]
    /\ ledBlue = [s \in Seats |-> FALSE]
    /\ pcSensor = [s \in Seats |-> "take"]
    /\ pcButton = [s \in Seats |-> "wait"]
    /\ pcHeater = [s \in Seats |-> "takeDesiredTemp"]
    /\ pcDiagnostic = [s \in Seats |-> "wait"]
    /\ xlogSensor = [s \in Seats |-> xFailureLogZero]
    /\ xlogDiagnostic = [s \in Seats |-> xFailureLogZero]
    /\ ucPrevHeaterState = [s \in Seats |-> ucPrevHeaterStateInit]
    /\ uiTimer = 0
    /\ faultBudget = budget
    /\ sensorInputs = inputs
    /\ running = seats
    /\ edgeBudget = edges
    /\ xDisplayScreenMutex = NoTask
    /\ pcDisplay = "check"
    /\ pcRunTime = "take"
    /\ xDisplayPrev = [s \in Seats |-> xDisplayPrevInit]
    /\ xPortCopy = [s \in Seats |-> PortData(s)]

InitWith(seats, budget, inputs) == InitEdges(seats, budget, inputs, Unbounded)

Init == InitWith(Seats, [s \in Seats |-> MaxFaults], TempSamples)

(***************************** observers ***********************************)
\* History variables: they record what the tasks did and are read by no
\* action.  Per seat: fault edges (the error flag rising), records pushed,
\* wake signals given, fault-indicator assertions, and the steps the
\* diagnostic task has performed since its last wake-up.
\* hFaultWrites counts, up to MaxFaultWrites, the controller cycles that wrote
\* the heater LEDs with heater state Off since the error flag was last clear.
\* hEpisode is the record the sensor task built at the seat's latest fault edge.
\* hSwitch counts the edges on the switches of the seat that the handlers have
\* served, modulo the number of heating levels.
VARIABLES hEdges, hPush, hGive, hRedOn, hWake, hFaultWrites, hEpisode, hSwitch

hvars == <<hEdges, hPush, hGive, hRedOn, hWake, hFaultWrites, hEpisode, hSwitch>>

allvars == <<vars, hvars, reportVars, xPortCopy>>

HInit ==
    /\ hEdges = [s \in Seats |-> 0]
    /\ hPush = [s \in Seats |-> 0]
    /\ hGive = [s \in Seats |-> 0]
    /\ hRedOn = [s \in Seats |-> 0]
    /\ hWake = [s \in Seats |-> <<>>]
    /\ hFaultWrites = [s \in Seats |-> 0]
    /\ hSwitch = [s \in Seats |-> 0]
    /\ hEpisode = [s \in Seats |-> xFailureLogZero]

Count(old, happened) == IF happened THEN old + 1 ELSE old

\* a controller cycle that writes the LEDs during a fault only
HeaterMustUpdateOnFault(prev, state, error) == error = TRUE

\* whether a controller cycle writes the LEDs (line 700)
HeaterMustUpdate(prev, state, error) == (prev # state) \/ (error = TRUE)

\* the step of a controller cycle of seat s that updates the LEDs writes them
\* with heater state Off while the error flag is set
FaultWrite(s) ==
    /\ pcHeater[s] = "update" /\ pcHeater'[s] = "give"
    /\ HeaterMustUpdate(ucPrevHeaterState[s], ucHeaterState[s], ucErrorFlag[s])
    /\ ucErrorFlag[s]
    /\ ucHeaterState[s] = mainHEATER_STATE_OFF

Observe ==
    /\ hEdges' = [s \in Seats |-> Count(hEdges[s], ~ucErrorFlag[s] /\ ucErrorFlag'[s])]
    /\ hPush' = [s \in Seats |->
                   Count(hPush[s], Len(xDiagnosticQueue'[s]) > Len(xDiagnosticQueue[s]))]
    /\ hGive' = [s \in Seats |->
                   Count(hGive[s], pcSensor[s] = "give" /\ pcSensor'[s] # "give")]
    /\ hRedOn' = [s \in Seats |->
                   Count(hRedOn[s], pcDiagnostic[s] = "redOn" /\ pcDiagnostic'[s] # "redOn")]
    /\ hWake' = [s \in Seats |->
                   IF pcDiagnostic'[s] = pcDiagnostic[s] THEN hWake[s]
                   ELSE IF pcDiagnostic[s] = "wait" THEN <<>>
                   ELSE IF pcDiagnostic[s] = "off" THEN Append(hWake[s], "heaterOff")
                   ELSE IF pcDiagnostic[s] = "receive" THEN Append(hWake[s], "append")
                   ELSE IF pcDiagnostic[s] = "redOn" THEN Append(hWake[s], "indicator")
                   ELSE hWake[s]]
    /\ hFaultWrites' = [s \in Seats |->
                   IF ~ucErrorFlag'[s] THEN 0
                   ELSE IF FaultWrite(s) /\ hFaultWrites[s] < MaxFaultWrites
                   THEN hFaultWrites[s] + 1
                   ELSE hFaultWrites[s]]
    /\ hEpisode' = [s \in Seats |->
                   IF ~ucErrorFlag[s] /\ ucErrorFlag'[s] THEN xlogSensor'[s]
                   ELSE hEpisode[s]]

\* a step of the program together with what the observers record of it
Observed(A) == A /\ Observe /\ UNCHANGED <<hSwitch, reportVars, xPortCopy>>

\* a step of the display or the run-time measurement task
Reported(A) == A /\ Observe /\ UNCHANGED <<hSwitch, xPortCopy>>

\* a handler that serves the edges of the switches in pins
Interrupted(pins, A) ==
    /\ A /\ Observe /\ UNCHANGED <<reportVars, xPortCopy>>
    /\ hSwitch' = [s \in Seats |->
                     (hSwitch[s] + Cardinality(pins \cap SwitchesOf(s)))
                         % mainTOTAL_HEATING_LEVELS]

\* a step of a task of seat s: only the tasks of the running seats are scheduled
Run(s, A) == s \in running /\ Observed(A)

(************************** kernel primitives ******************************)
\* xSemaphoreTake(mutex, portMAX_DELAY) returns only once the mutex is free
MutexFree(s, m) == xMutex[s][m] = NoTask

MutexTaken(s, m, task) == [xMutex EXCEPT ![s][m] = task]

\* a give that leaves the heater state mutex with its holder
MutexGivenExceptHeaterState(s, m) ==
    IF m = HeaterStateMutex THEN xMutex ELSE [xMutex EXCEPT ![s][m] = NoTask]

\* a give that leaves the mutex with its holder
MutexGivenKept(s, m) == xMutex

\* xSemaphoreGive(mutex)
MutexGiven(s, m) == [xMutex EXCEPT ![s][m] = NoTask]

\* value GPTM_WTimer0Read() returns: a free-running timer, read as a strictly
\* increasing number
GPTM_WTimer0Read == uiTimer

(************************ vDriverSensorProcessTask *************************)
(************************ vPassengerSensorsProcessTask *********************)
\* xSemaphoreTake(xDriverTempValueMutex, portMAX_DELAY)
SensorTakeMutex(s) ==
    /\ pcSensor[s] = "take"
    /\ MutexFree(s, TempValueMutex)
    /\ xMutex' = MutexTaken(s, TempValueMutex, SensorTask)
    /\ pcSensor' = [pcSensor EXCEPT ![s] = "sample"]
    /\ UNCHANGED <<fieldVars, diagVars, xErrorReportSemaphore, xDiagnosticQueue,
                   xButtonsEventGroup, ledVars, pcButton, pcHeater, pcDiagnostic,
                   localVars, envVars>>

\* ucDriverTemperatureValue = LM35_getTemperature(SENSOR0_CHANNEL_ID);
\* xSemaphoreGive(xDriverTempValueMutex).  The environment delivers sample t;
\* it starts a new fault episode only while the seat's fault budget lasts.
SensorSample(s, t) ==
    /\ pcSensor[s] = "sample"
    /\ t \in sensorInputs
    /\ (OutOfRange(t) /\ ~ucErrorFlag[s]) => faultBudget[s] > 0
    /\ ucTemperatureValue' = [ucTemperatureValue EXCEPT ![s] = t]
    /\ xMutex' = MutexGiven(s, TempValueMutex)
    /\ pcSensor' = [pcSensor EXCEPT ![s] = "check"]
    /\ UNCHANGED <<ucHeatingLevel, ucDesiredTemperature, ucHeaterState, ucErrorFlag,
                   diagVars, xErrorReportSemaphore, xDiagnosticQueue,
                   xButtonsEventGroup, ledVars, pcButton, pcHeater, pcDiagnostic,
                   localVars, envVars>>

\* the failure codes exchanged
FailureCodeSwapped(t, old) ==
    IF t > mainTEMP_MAX_VALID_RANGE THEN mainTEMP_UNDER_RANGE_FAIL
    ELSE IF t < mainTEMP_MIN_VALID_RANGE THEN mainTEMP_OVER_RANGE_FAIL
    ELSE old

\* the failure code of the record built at a fault edge (lines 374-381)
FailureCodeOf(t, old) ==
    IF t > mainTEMP_MAX_VALID_RANGE THEN mainTEMP_OVER_RANGE_FAIL
    ELSE IF t < mainTEMP_MIN_VALID_RANGE THEN mainTEMP_UNDER_RANGE_FAIL
    ELSE old

\* a sensor cycle that raises the error flag only after the record is pushed
\* and the semaphore given: the check at a fault edge leaves the flag clear
SensorCheckFlagLate(s) ==
    /\ pcSensor[s] = "check"
    /\ IF OutOfRange(ucTemperatureValue[s])
       THEN /\ xlogSensor' = [xlogSensor EXCEPT ![s] =
                   [uiTimeStamp |-> GPTM_WTimer0Read,
                    ucHeatingLevel |-> ucHeatingLevel[s],
                    ucFailureCode |-> FailureCodeOf(ucTemperatureValue[s],
                                                     xlogSensor[s].ucFailureCode),
                    ucFailureSeat |-> ucFailureSeatOf(s)]]
            /\ uiTimer' = uiTimer + 1
            /\ faultBudget' = [faultBudget EXCEPT ![s] = @ - 1]
            /\ pcSensor' = [pcSensor EXCEPT ![s] = "send"]
            /\ UNCHANGED ucErrorFlag
       ELSE /\ pcSensor' = [pcSensor EXCEPT ![s] = "take"]
            /\ UNCHANGED <<xlogSensor, ucErrorFlag, uiTimer, faultBudget>>
    /\ UNCHANGED <<ucHeatingLevel, ucDesiredTemperature, ucTemperatureValue,
                   ucHeaterState, diagVars, xMutex, xErrorReportSemaphore,
                   xDiagnosticQueue, xButtonsEventGroup, ledVars, pcButton, pcHeater,
                   pcDiagnostic, xlogDiagnostic, ucPrevHeaterState, sensorInputs, running, edgeBudget>>

\* if (temp > MAX || temp < MIN) { if (!ucDriverErrorFlag) { build xlog;
\* ucDriverErrorFlag = pdTRUE; ... } } else if (ucDriverErrorFlag)
\* { ucDriverErrorFlag = pdFALSE; ... }
SensorCheck(s) ==
    /\ pcSensor[s] = "check"
    /\ IF OutOfRange(ucTemperatureValue[s])
       THEN IF ~ucErrorFlag[s]
            THEN /\ xlogSensor' = [xlogSensor EXCEPT ![s] =
                        [uiTimeStamp |-> GPTM_WTimer0Read,
                         ucHeatingLevel |-> ucHeatingLevel[s],
                         ucFailureCode |-> FailureCodeOf(ucTemperatureValue[s],
                                                          xlogSensor[s].ucFailureCode),
                         ucFailureSeat |-> ucFailureSeatOf(s)]]
                 /\ ucErrorFlag' = [ucErrorFlag EXCEPT ![s] = TRUE]
                 /\ uiTimer' = uiTimer + 1
                 /\ faultBudget' = [faultBudget EXCEPT ![s] = @ - 1]
                 /\ pcSensor' = [pcSensor EXCEPT ![s] = "send"]
            ELSE /\ pcSensor' = [pcSensor EXCEPT ![s] = "take"]
                 /\ UNCHANGED <<xlogSensor, ucErrorFlag, uiTimer, faultBudget>>
       ELSE IF ucErrorFlag[s]
            THEN /\ ucErrorFlag' = [ucErrorFlag EXCEPT ![s] = FALSE]
                 /\ pcSensor' = [pcSensor EXCEPT ![s] = "redOff"]
                 /\ UNCHANGED <<xlogSensor, uiTimer, faultBudget>>
            ELSE /\ pcSensor' = [pcSensor EXCEPT ![s] = "take"]
                 /\ UNCHANGED <<xlogSensor, ucErrorFlag, uiTimer, faultBudget>>
    /\ UNCHANGED <<ucHeatingLevel, ucDesiredTemperature, ucTemperatureValue,
                   ucHeaterState, diagVars, xMutex, xErrorReportSemaphore,
                   xDiagnosticQueue, xButtonsEventGroup, ledVars, pcButton, pcHeater,
                   pcDiagnostic, xlogDiagnostic, ucPrevHeaterState, sensorInputs, running, edgeBudget>>

\* xQueueSend(xDriverDiagnosticQueue, &xlog, portMAX_DELAY): blocks while full.
\* The queue copies xlog; the block-scoped xlog is dead afterwards.
SensorQueueSend(s) ==
    /\ pcSensor[s] = "send"
    /\ Len(xDiagnosticQueue[s]) < uxQueueLength
    /\ xDiagnosticQueue' = [xDiagnosticQueue EXCEPT ![s] = Append(@, xlogSensor[s])]
    /\ xlogSensor' = [xlogSensor EXCEPT ![s] = xFailureLogZero]
    /\ pcSensor' = [pcSensor EXCEPT ![s] = "give"]
    /\ UNCHANGED <<fieldVars, diagVars, xMutex, xErrorReportSemaphore,
                   xButtonsEventGroup, ledVars, pcButton, pcHeater, pcDiagnostic,
                   xlogDiagnostic, ucPrevHeaterState, envVars>>

\* the sensor task going on without giving the error-report semaphore
SensorSemaphoreGiveDropped(s) ==
    /\ pcSensor[s] = "give"
    /\ pcSensor' = [pcSensor EXCEPT ![s] = "take"]
    /\ UNCHANGED <<fieldVars, diagVars, xMutex, xErrorReportSemaphore, xDiagnosticQueue,
                   xButtonsEventGroup, ledVars, pcButton, pcHeater, pcDiagnostic,
                   localVars, envVars>>

\* xSemaphoreGive(xDriverErrorReportSemaphore): a binary semaphore, a give
\* while it is already available changes nothing
SensorSemaphoreGive(s) ==
    /\ pcSensor[s] = "give"
    /\ xErrorReportSemaphore' = [xErrorReportSemaphore EXCEPT ![s] = 1]
    /\ pcSensor' = [pcSensor EXCEPT ![s] = "take"]
    /\ UNCHANGED <<fieldVars, diagVars, xMutex, xDiagnosticQueue,
                   xButtonsEventGroup, ledVars, pcButton, pcHeater, pcDiagnostic,
                   localVars, envVars>>

\* Led_RED1_SetOff()
SensorRedOff(s) ==
    /\ pcSensor[s] = "redOff"
    /\ ledRed' = [ledRed EXCEPT ![s] = FALSE]
    /\ pcSensor' = [pcSensor EXCEPT ![s] = "take"]
    /\ UNCHANGED <<fieldVars, diagVars, xMutex, xErrorReportSemaphore,
                   xDiagnosticQueue, xButtonsEventGroup, ledGreen, ledBlue,
                   pcButton, pcHeater, pcDiagnostic, localVars, envVars>>

vSensorProcessTask(s) ==
    \/ Run(s, SensorTakeMutex(s))
    \/ \E t \in TempSamples : Run(s, SensorSample(s, t))
    \/ Run(s, SensorCheck(s))
    \/ Run(s, SensorQueueSend(s))
    \/ Run(s, SensorSemaphoreGive(s))
    \/ Run(s, SensorRedOff(s))


(************************ vDriverButtonsProcessTask ************************)
(************************ vPassengerButtonProcessTask **********************)
\* const EventBits_t xBitsToWaitFor
xBitsToWaitFor(s) ==
    IF s = "Driver" THEN {mainSW1_INTERRUPT_BIT, mainSW3_INTERRUPT_BIT}
    ELSE {mainSW2_INTERRUPT_BIT}

\* the if-chain on ucDriverHeatingLevel (lines 540-555): the levels compared,
\* in program order, the desired temperature assigned when a comparison
\* succeeds, and the position of the task before each comparison
CompareLevels ==
    <<mainHEATING_LEVEL_OFF, mainHEATING_LEVEL_LOW,
      mainHEATING_LEVEL_MEDIUM, mainHEATING_LEVEL_HIGH>>

CompareDesired ==
    <<mainDESIRED_TEMP_OFF, mainDESIRED_TEMP_LOW,
      mainDESIRED_TEMP_MEDIUM, mainDESIRED_TEMP_HIGH>>

CompareLabels == <<"update", "updateLow", "updateMedium", "updateHigh">>

\* the positions at which the button task holds the desired temperature mutex
UpdateLabels == {CompareLabels[k] : k \in DOMAIN CompareLabels}

ComparePosition(label) == CHOOSE k \in DOMAIN CompareLabels : CompareLabels[k] = label

\* the wait clearing the event bits without waking the button task
ButtonWaitBitsDropping(s) ==
    /\ pcButton[s] = "wait"
    /\ xButtonsEventGroup[s] \cap xBitsToWaitFor(s) # {}
    /\ xButtonsEventGroup' = [xButtonsEventGroup EXCEPT ![s] = @ \ xBitsToWaitFor(s)]
    /\ UNCHANGED <<fieldVars, diagVars, xMutex, xErrorReportSemaphore,
                   xDiagnosticQueue, ledVars, pcVars, localVars, envVars>>

\* xEventGroupWaitBits(group, xBitsToWaitFor, pdTRUE, pdFALSE, portMAX_DELAY):
\* blocks until one of the bits is set, returns the bits and clears them;
\* then the test of the returned bits (line 528)
ButtonWaitBits(s) ==
    /\ pcButton[s] = "wait"
    /\ xButtonsEventGroup[s] \cap xBitsToWaitFor(s) # {}
    /\ xButtonsEventGroup' = [xButtonsEventGroup EXCEPT ![s] = @ \ xBitsToWaitFor(s)]
    /\ pcButton' = [pcButton EXCEPT ![s] =
            IF xButtonsEventGroup[s] \cap xBitsToWaitFor(s) # {} THEN "take" ELSE "wait"]
    /\ UNCHANGED <<fieldVars, diagVars, xMutex, xErrorReportSemaphore,
                   xDiagnosticQueue, ledVars, pcSensor, pcHeater, pcDiagnostic,
                   xlogSensor, xlogDiagnostic, ucPrevHeaterState, envVars>>

\* xSemaphoreTake(xDriverDesiredTempMutex, portMAX_DELAY)
ButtonTakeMutex(s) ==
    /\ pcButton[s] = "take"
    /\ MutexFree(s, DesiredTempMutex)
    /\ xMutex' = MutexTaken(s, DesiredTempMutex, ButtonTask)
    /\ pcButton' = [pcButton EXCEPT ![s] = "update"]
    /\ UNCHANGED <<fieldVars, diagVars, xErrorReportSemaphore, xDiagnosticQueue,
                   xButtonsEventGroup, ledVars, pcSensor, pcHeater, pcDiagnostic,
                   localVars, envVars>>

\* one comparison of the if-chain: each reads ucDriverHeatingLevel anew.  A
\* comparison that succeeds assigns the desired temperature and leaves the
\* chain; when the last one fails nothing is assigned.  After the chain
\* xSemaphoreGive(xDriverDesiredTempMutex).
ButtonUpdate(s) ==
    /\ pcButton[s] \in UpdateLabels
    /\ LET k == ComparePosition(pcButton[s]) IN
         IF ucHeatingLevel[s] = CompareLevels[k]
         THEN /\ ucDesiredTemperature' =
                    [ucDesiredTemperature EXCEPT ![s] = CompareDesired[k]]
              /\ xMutex' = MutexGiven(s, DesiredTempMutex)
              /\ pcButton' = [pcButton EXCEPT ![s] = "wait"]
         ELSE IF k = Len(CompareLabels)
         THEN /\ xMutex' = MutexGiven(s, DesiredTempMutex)
              /\ pcButton' = [pcButton EXCEPT ![s] = "wait"]
              /\ UNCHANGED ucDesiredTemperature
         ELSE /\ pcButton' = [pcButton EXCEPT ![s] = CompareLabels[k + 1]]
              /\ UNCHANGED <<ucDesiredTemperature, xMutex>>
    /\ UNCHANGED <<ucHeatingLevel, ucTemperatureValue, ucHeaterState, ucErrorFlag,
                   diagVars, xErrorReportSemaphore, xDiagnosticQueue,
                   xButtonsEventGroup, ledVars, pcSensor, pcHeater, pcDiagnostic,
                   localVars, envVars>>

vButtonsProcessTask(s) ==
    \/ Run(s, ButtonWaitBits(s))
    \/ Run(s, ButtonTakeMutex(s))
    \/ Run(s, ButtonUpdate(s))


(************************* interrupt handlers ******************************)
\* the increment wrapping one level too late
NextHeatingLevelLateWrap(level) == (level + 1) % (mainTOTAL_HEATING_LEVELS + 1)

\* ucDriverHeatingLevel = (ucDriverHeatingLevel + 1) % mainTOTAL_HEATING_LEVELS
NextHeatingLevel(level) == (level + 1) % mainTOTAL_HEATING_LEVELS

\* the environment produces n control edges
ControlEdges(n) ==
    /\ edgeBudget = Unbounded \/ edgeBudget >= n
    /\ edgeBudget' = IF edgeBudget = Unbounded THEN Unbounded ELSE edgeBudget - n

\* GPIO_PORTF_Handler with the raw interrupt status ris: PF0 is SW2 (passenger),
\* PF4 is SW1 (driver); both may be pending in one invocation
GPIO_PORTF_Handler(ris) ==
    /\ ris # {}
    /\ ControlEdges(Cardinality(ris))
    /\ ucHeatingLevel' =
         [s \in Seats |->
            IF (s = "Passenger" /\ PF0 \in ris) \/ (s = "Driver" /\ PF4 \in ris)
            THEN NextHeatingLevel(ucHeatingLevel[s]) ELSE ucHeatingLevel[s]]
    /\ xButtonsEventGroup' =
         [s \in Seats |->
            IF s = "Passenger" /\ PF0 \in ris
            THEN xButtonsEventGroup[s] \cup {mainSW2_INTERRUPT_BIT}
            ELSE IF s = "Driver" /\ PF4 \in ris
            THEN xButtonsEventGroup[s] \cup {mainSW1_INTERRUPT_BIT}
            ELSE xButtonsEventGroup[s]]
    /\ UNCHANGED <<ucDesiredTemperature, ucTemperatureValue, ucHeaterState,
                   ucErrorFlag, diagVars, xMutex, xErrorReportSemaphore,
                   xDiagnosticQueue, ledVars, pcVars, localVars,
                   uiTimer, faultBudget, sensorInputs, running>>

\* the port B handler waiting for the heating level mutex before its update
GPIO_PORTB_HandlerTakingMutex ==
    /\ MutexFree("Driver", HeatingLevelMutex)
    /\ ControlEdges(1)
    /\ ucHeatingLevel' = [ucHeatingLevel EXCEPT !["Driver"] = NextHeatingLevel(@)]
    /\ xButtonsEventGroup' = [xButtonsEventGroup EXCEPT !["Driver"] =
                                  @ \cup {mainSW3_INTERRUPT_BIT}]
    /\ UNCHANGED <<ucDesiredTemperature, ucTemperatureValue, ucHeaterState,
                   ucErrorFlag, diagVars, xMutex, xErrorReportSemaphore,
                   xDiagnosticQueue, ledVars, pcVars, localVars,
                   uiTimer, faultBudget, sensorInputs, running>>

\* the port B handler skipping the increment while an edge of the driver's
\* switches is still pending
GPIO_PORTB_HandlerCoalescing ==
    /\ ControlEdges(1)
    /\ ucHeatingLevel' =
         [ucHeatingLevel EXCEPT !["Driver"] =
             IF xButtonsEventGroup["Driver"] = {} THEN NextHeatingLevel(@) ELSE @]
    /\ xButtonsEventGroup' = [xButtonsEventGroup EXCEPT !["Driver"] =
                                  @ \cup {mainSW3_INTERRUPT_BIT}]
    /\ UNCHANGED <<ucDesiredTemperature, ucTemperatureValue, ucHeaterState,
                   ucErrorFlag, diagVars, xMutex, xErrorReportSemaphore,
                   xDiagnosticQueue, ledVars, pcVars, localVars,
                   uiTimer, faultBudget, sensorInputs, running>>

\* GPIO_PORTB_Handler: PB1 is SW3 (driver)
GPIO_PORTB_Handler ==
    /\ ControlEdges(1)
    /\ ucHeatingLevel' = [ucHeatingLevel EXCEPT !["Driver"] = NextHeatingLevel(@)]
    /\ xButtonsEventGroup' = [xButtonsEventGroup EXCEPT !["Driver"] =
                                  @ \cup {mainSW3_INTERRUPT_BIT}]
    /\ UNCHANGED <<ucDesiredTemperature, ucTemperatureValue, ucHeaterState,
                   ucErrorFlag, diagVars, xMutex, xErrorReportSemaphore,
                   xDiagnosticQueue, ledVars, pcVars, localVars,
                   uiTimer, faultBudget, sensorInputs, running>>

(************************ vDriverHeaterProcessTask *************************)
(************************ vPassengerHeatersProcessTask *********************)
\* the order of the four xSemaphoreTake calls at the head of a cycle (lines
\* 656-659) and of the four xSemaphoreGive calls at its end (lines 732-735)
HeaterTakeOrder == <<DesiredTempMutex, HeaterStateMutex, HeatingLevelMutex, TempValueMutex>>

HeaterGiveOrder == <<TempValueMutex, HeatingLevelMutex, HeaterStateMutex, DesiredTempMutex>>

\* the four xSemaphoreTake calls at the head of a cycle, in program order
HeaterTake(s, label, m, next) ==
    /\ pcHeater[s] = label
    /\ MutexFree(s, m)
    /\ xMutex' = MutexTaken(s, m, HeaterTask)
    /\ pcHeater' = [pcHeater EXCEPT ![s] = next]
    /\ UNCHANGED <<fieldVars, diagVars, xErrorReportSemaphore, xDiagnosticQueue,
                   xButtonsEventGroup, ledVars, pcSensor, pcButton, pcDiagnostic,
                   localVars, envVars>>

HeaterTakeDesiredTemp(s) == HeaterTake(s, "takeDesiredTemp", HeaterTakeOrder[1], "takeHeaterState")

HeaterTakeHeaterState(s) == HeaterTake(s, "takeHeaterState", HeaterTakeOrder[2], "takeHeatingLevel")

HeaterTakeHeatingLevel(s) == HeaterTake(s, "takeHeatingLevel", HeaterTakeOrder[3], "takeTempValue")

HeaterTakeTempValue(s) == HeaterTake(s, "takeTempValue", HeaterTakeOrder[4], "decide")

\* the band of a temperature difference (lines 671-685): a difference below
\* mainTEMP_DIFF_LOW_THRESHOLD matches no branch and leaves the state as it is
HeaterStateOfDiff(diff, old) ==
    IF diff >= mainTEMP_DIFF_LOW_THRESHOLD /\ diff < mainTEMP_DIFF_MEDIUM_THRESHOLD
    THEN mainHEATER_STATE_LOW
    ELSE IF diff >= mainTEMP_DIFF_MEDIUM_THRESHOLD /\ diff < mainTEMP_DIFF_HIGH_THRESHOLD
    THEN mainHEATER_STATE_MEDIUM
    ELSE IF diff >= mainTEMP_DIFF_HIGH_THRESHOLD
    THEN mainHEATER_STATE_HIGH
    ELSE old

\* the decision of one cycle without the test of the heating level
HeaterDecisionIgnoringLevel(level, error, desired, current, old) ==
    IF error = FALSE
    THEN IF desired >= current
         THEN HeaterStateOfDiff((desired - current) % UINT8, old)
         ELSE mainHEATER_STATE_OFF
    ELSE mainHEATER_STATE_OFF

\* the decision of one cycle without the test of the error flag
HeaterDecisionIgnoringError(level, error, desired, current, old) ==
    IF level # mainHEATING_LEVEL_OFF
    THEN IF desired >= current
         THEN HeaterStateOfDiff((desired - current) % UINT8, old)
         ELSE mainHEATER_STATE_OFF
    ELSE mainHEATER_STATE_OFF

\* the decision of one cycle leaving the state alone when the seat is warmer
\* than desired
HeaterDecisionKeepingWhenWarm(level, error, desired, current, old) ==
    IF level # mainHEATING_LEVEL_OFF /\ error = FALSE
    THEN IF desired >= current
         THEN HeaterStateOfDiff((desired - current) % UINT8, old)
         ELSE old
    ELSE mainHEATER_STATE_OFF

\* the decision of one cycle (lines 662-697)
HeaterDecision(level, error, desired, current, old) ==
    IF level # mainHEATING_LEVEL_OFF /\ error = FALSE
    THEN IF desired >= current
         THEN HeaterStateOfDiff((desired - current) % UINT8, old)
         ELSE mainHEATER_STATE_OFF
    ELSE mainHEATER_STATE_OFF

HeaterDecide(s) ==
    /\ pcHeater[s] = "decide"
    /\ ucHeaterState' = [ucHeaterState EXCEPT ![s] =
            HeaterDecision(ucHeatingLevel[s], ucErrorFlag[s], ucDesiredTemperature[s],
                           ucTemperatureValue[s], @)]
    /\ pcHeater' = [pcHeater EXCEPT ![s] = "update"]
    /\ UNCHANGED <<ucHeatingLevel, ucDesiredTemperature, ucTemperatureValue,
                   ucErrorFlag, diagVars, xMutex, xErrorReportSemaphore,
                   xDiagnosticQueue, xButtonsEventGroup, ledVars, pcSensor, pcButton,
                   pcDiagnostic, localVars, envVars>>

\* the switch on the heater state (lines 706-729): the levels written to the
\* green and the blue LED
GreenOf(state) == state = mainHEATER_STATE_LOW \/ state = mainHEATER_STATE_HIGH

\* the blue LED lit for Medium alone
BlueOfMediumOnly(state) == state = mainHEATER_STATE_MEDIUM

BlueOf(state) == state = mainHEATER_STATE_MEDIUM \/ state = mainHEATER_STATE_HIGH

HeaterUpdateLeds(s) ==
    /\ pcHeater[s] = "update"
    /\ IF HeaterMustUpdate(ucPrevHeaterState[s], ucHeaterState[s], ucErrorFlag[s])
       THEN /\ ucPrevHeaterState' = [ucPrevHeaterState EXCEPT ![s] = ucHeaterState[s]]
            /\ ledGreen' = [ledGreen EXCEPT ![s] = GreenOf(ucHeaterState[s])]
            /\ ledBlue' = [ledBlue EXCEPT ![s] = BlueOf(ucHeaterState[s])]
       ELSE UNCHANGED <<ucPrevHeaterState, ledGreen, ledBlue>>
    /\ pcHeater' = [pcHeater EXCEPT ![s] = "give"]
    /\ UNCHANGED <<fieldVars, diagVars, xMutex, xErrorReportSemaphore,
                   xDiagnosticQueue, xButtonsEventGroup, ledRed, pcSensor, pcButton,
                   pcDiagnostic, xlogSensor, xlogDiagnostic, envVars>>

\* the four xSemaphoreGive calls (lines 732-735), then vTaskDelayUntil
HeaterGive(s) ==
    /\ pcHeater[s] = "give"
    /\ xMutex' = [xMutex EXCEPT ![s] =
                     [m \in Mutexes |->
                        IF \E i \in DOMAIN HeaterGiveOrder : HeaterGiveOrder[i] = m
                        THEN NoTask ELSE @[m]]]
    /\ pcHeater' = [pcHeater EXCEPT ![s] = "takeDesiredTemp"]
    /\ UNCHANGED <<fieldVars, diagVars, xErrorReportSemaphore, xDiagnosticQueue,
                   xButtonsEventGroup, ledVars, pcSensor, pcButton, pcDiagnostic,
                   localVars, envVars>>

vHeaterProcessTask(s) ==
    \/ Run(s, HeaterTakeDesiredTemp(s))
    \/ Run(s, HeaterTakeHeaterState(s))
    \/ Run(s, HeaterTakeHeatingLevel(s))
    \/ Run(s, HeaterTakeTempValue(s))
    \/ Run(s, HeaterDecide(s))
    \/ Run(s, HeaterUpdateLeds(s))
    \/ Run(s, HeaterGive(s))


(************************** vDriverDiagnosticTask **************************)
(************************** vPassengerDiagnosticTask ***********************)
\* The driver's task forces the heater off before it receives the record; the
\* passenger's task receives the record first.
DiagnosticAfterWait(s) == IF s = "Driver" THEN "takeMutex" ELSE "receive"

DiagnosticAfterOff(s) == IF s = "Driver" THEN "receive" ELSE "redOn"

DiagnosticAfterIncrement(s) == IF s = "Driver" THEN "redOn" ELSE "takeMutex"

\* xSemaphoreTake(xDriverErrorReportSemaphore, portMAX_DELAY)
DiagnosticWait(s) ==
    /\ pcDiagnostic[s] = "wait"
    /\ xErrorReportSemaphore[s] = 1
    /\ xErrorReportSemaphore' = [xErrorReportSemaphore EXCEPT ![s] = 0]
    /\ pcDiagnostic' = [pcDiagnostic EXCEPT ![s] = DiagnosticAfterWait(s)]
    /\ UNCHANGED <<fieldVars, diagVars, xMutex, xDiagnosticQueue, xButtonsEventGroup,
                   ledVars, pcSensor, pcButton, pcHeater, localVars, envVars>>

\* xSemaphoreTake(xDriverHeaterStateMutex, portMAX_DELAY)
DiagnosticTakeMutex(s) ==
    /\ pcDiagnostic[s] = "takeMutex"
    /\ MutexFree(s, HeaterStateMutex)
    /\ xMutex' = MutexTaken(s, HeaterStateMutex, DiagnosticTask)
    /\ pcDiagnostic' = [pcDiagnostic EXCEPT ![s] = "off"]
    /\ UNCHANGED <<fieldVars, diagVars, xErrorReportSemaphore, xDiagnosticQueue,
                   xButtonsEventGroup, ledVars, pcSensor, pcButton, pcHeater,
                   localVars, envVars>>

\* ucDriverHeaterState = mainHEATER_STATE_OFF; xSemaphoreGive(xDriverHeaterStateMutex)
DiagnosticHeaterOff(s) ==
    /\ pcDiagnostic[s] = "off"
    /\ ucHeaterState' = [ucHeaterState EXCEPT ![s] = mainHEATER_STATE_OFF]
    /\ xMutex' = MutexGiven(s, HeaterStateMutex)
    /\ pcDiagnostic' = [pcDiagnostic EXCEPT ![s] = DiagnosticAfterOff(s)]
    /\ UNCHANGED <<ucHeatingLevel, ucDesiredTemperature, ucTemperatureValue,
                   ucErrorFlag, diagVars, xErrorReportSemaphore, xDiagnosticQueue,
                   xButtonsEventGroup, ledVars, pcSensor, pcButton, pcHeater,
                   localVars, envVars>>

\* xDiagnosticArray[index].field = value: a write inside the array changes
\* the field of the slot, a write past its end lands outside the array
DiagnosticFieldStore(array, index, field, value) ==
    IF index < mainDIAGNOSTIC_SIZE THEN [array EXCEPT ![index][field] = value] ELSE array

DiagnosticOverrunStore(overrun, index) ==
    IF index < mainDIAGNOSTIC_SIZE THEN overrun ELSE overrun \cup {index}

\* What a store past the end of the array hits is undefined: it depends on what
\* the build places behind xDiagnosticArray.  The outcomes kept here: the
\* stores hit no variable of the program, or the store of the failure code
\* (line 891) lands in one of the uint8 fields of a seat.
OverrunFields ==
    {"ucHeatingLevel", "ucDesiredTemperature", "ucTemperatureValue", "ucHeaterState"}

NoHit == [field |-> "none", seat |-> "none", byte |-> 0]

DiagnosticOverrunOutcomes(index, xlog) ==
    IF index < mainDIAGNOSTIC_SIZE THEN {NoHit}
    ELSE {NoHit} \cup
         [field : OverrunFields, seat : Seats, byte : {xlog.ucFailureCode}]

\* the field named name after outcome o of the store
FieldAfterStore(field, name, o) ==
    IF o.field = name THEN [field EXCEPT ![o.seat] = o.byte] ELSE field

\* xQueueReceive(xDriverDiagnosticQueue, &xlog, portMAX_DELAY): blocks while
\* the queue is empty
DiagnosticReceive(s) ==
    /\ pcDiagnostic[s] = "receive"
    /\ xDiagnosticQueue[s] # <<>>
    /\ xlogDiagnostic' = [xlogDiagnostic EXCEPT ![s] = Head(xDiagnosticQueue[s])]
    /\ xDiagnosticQueue' = [xDiagnosticQueue EXCEPT ![s] = Tail(@)]
    /\ pcDiagnostic' = [pcDiagnostic EXCEPT ![s] = "storeSeat"]
    /\ UNCHANGED <<fieldVars, diagVars, xMutex, xErrorReportSemaphore,
                   xButtonsEventGroup, ledVars, pcSensor, pcButton, pcHeater,
                   xlogSensor, ucPrevHeaterState, envVars>>

\* one of the four stores to xDiagnosticArray[ucDiagnosticIndex]: each reads
\* the index and writes one field of xlog; no lock covers the four
DiagnosticStore(s, label, field, next) ==
    /\ pcDiagnostic[s] = label
    /\ xDiagnosticArray' =
         DiagnosticFieldStore(xDiagnosticArray, ucDiagnosticIndex, field,
                              xlogDiagnostic[s][field])
    /\ xOverrun' = DiagnosticOverrunStore(xOverrun, ucDiagnosticIndex)
    /\ pcDiagnostic' = [pcDiagnostic EXCEPT ![s] = next]
    /\ UNCHANGED <<ucErrorFlag, ucDiagnosticIndex, xMutex, xErrorReportSemaphore,
                   xDiagnosticQueue, xButtonsEventGroup, ledVars, pcSensor, pcButton,
                   pcHeater, localVars, envVars>>

\* the fields a store inside the array, or one that hits nothing, leaves alone
DiagnosticStoreInside ==
    UNCHANGED <<ucHeatingLevel, ucDesiredTemperature, ucTemperatureValue, ucHeaterState>>

\* xDiagnosticArray[ucDiagnosticIndex].ucFailureSeat = xlog.ucFailureSeat
DiagnosticStoreSeat(s) ==
    DiagnosticStore(s, "storeSeat", "ucFailureSeat", "storeCode") /\ DiagnosticStoreInside

\* xDiagnosticArray[ucDiagnosticIndex].ucFailureCode = xlog.ucFailureCode
DiagnosticStoreCode(s) ==
    /\ DiagnosticStore(s, "storeCode", "ucFailureCode", "storeTimeStamp")
    /\ \E o \in DiagnosticOverrunOutcomes(ucDiagnosticIndex, xlogDiagnostic[s]) :
          /\ ucHeatingLevel' = FieldAfterStore(ucHeatingLevel, "ucHeatingLevel", o)
          /\ ucDesiredTemperature' =
                FieldAfterStore(ucDesiredTemperature, "ucDesiredTemperature", o)
          /\ ucTemperatureValue' =
                FieldAfterStore(ucTemperatureValue, "ucTemperatureValue", o)
          /\ ucHeaterState' = FieldAfterStore(ucHeaterState, "ucHeaterState", o)

\* xDiagnosticArray[ucDiagnosticIndex].uiTimeStamp = xlog.uiTimeStamp
DiagnosticStoreTimeStamp(s) ==
    DiagnosticStore(s, "storeTimeStamp", "uiTimeStamp", "storeLevel") /\ DiagnosticStoreInside

\* xDiagnosticArray[ucDiagnosticIndex].ucHeatingLevel = xlog.ucHeatingLevel
DiagnosticStoreLevel(s) ==
    DiagnosticStore(s, "storeLevel", "ucHeatingLevel", "increment") /\ DiagnosticStoreInside

\* ucDiagnosticIndex++ (uint8)
NextDiagnosticIndex(index) == (index + 1) % UINT8

DiagnosticIncrement(s) ==
    /\ pcDiagnostic[s] = "increment"
    /\ ucDiagnosticIndex' = NextDiagnosticIndex(ucDiagnosticIndex)
    /\ pcDiagnostic' = [pcDiagnostic EXCEPT ![s] = DiagnosticAfterIncrement(s)]
    /\ UNCHANGED <<fieldVars, xDiagnosticArray, xOverrun, xMutex,
                   xErrorReportSemaphore, xDiagnosticQueue, xButtonsEventGroup,
                   ledVars, pcSensor, pcButton, pcHeater, localVars, envVars>>

\* Led_RED1_SetOn()
DiagnosticRedOn(s) ==
    /\ pcDiagnostic[s] = "redOn"
    /\ ledRed' = [ledRed EXCEPT ![s] = TRUE]
    /\ pcDiagnostic' = [pcDiagnostic EXCEPT ![s] = "wait"]
    /\ UNCHANGED <<fieldVars, diagVars, xMutex, xErrorReportSemaphore,
                   xDiagnosticQueue, xButtonsEventGroup, ledGreen, ledBlue,
                   pcSensor, pcButton, pcHeater, localVars, envVars>>

vDiagnosticTask(s) ==
    \/ Run(s, DiagnosticWait(s))
    \/ Run(s, DiagnosticTakeMutex(s))
    \/ Run(s, DiagnosticHeaterOff(s))
    \/ Run(s, DiagnosticReceive(s))
    \/ Run(s, DiagnosticStoreSeat(s))
    \/ Run(s, DiagnosticStoreCode(s))
    \/ Run(s, DiagnosticStoreTimeStamp(s))
    \/ Run(s, DiagnosticStoreLevel(s))
    \/ Run(s, DiagnosticIncrement(s))
    \/ Run(s, DiagnosticRedOn(s))

(*************************** vDisplayScreenTask ****************************)
\* what the display task compares and prints of seat s
DisplaySnapshot(s) ==
    [level |-> ucHeatingLevel[s], temp |-> ucTemperatureValue[s], state |-> ucHeaterState[s]]

\* xSemaphoreTake(xDisplayScreenMutex, portMAX_DELAY) by the display task that
\* erroneously takes a field mutex of the driver instead
DisplayTakeFieldMutex ==
    /\ pcDisplay = "take"
    /\ MutexFree("Driver", TempValueMutex)
    /\ xMutex' = MutexTaken("Driver", TempValueMutex, DisplayTask)
    /\ pcDisplay' = "print"
    /\ UNCHANGED <<fieldVars, diagVars, xErrorReportSemaphore, xDiagnosticQueue,
                   xButtonsEventGroup, ledVars, pcVars, localVars, envVars,
                   xDisplayScreenMutex, pcRunTime, xDisplayPrev>>

\* if (a field differs from its ucPrev... copy) (lines 977-978); otherwise the
\* task goes to its delay and comes back to the same test
DisplayCheck ==
    /\ pcDisplay = "check"
    /\ \E s \in Seats : DisplaySnapshot(s) # xDisplayPrev[s]
    /\ pcDisplay' = "take"
    /\ UNCHANGED <<vars, xDisplayScreenMutex, pcRunTime, xDisplayPrev>>

\* xSemaphoreTake(xDisplayScreenMutex, portMAX_DELAY)
DisplayTake ==
    /\ pcDisplay = "take"
    /\ xDisplayScreenMutex = NoTask
    /\ xDisplayScreenMutex' = DisplayTask
    /\ pcDisplay' = "print"
    /\ UNCHANGED <<vars, pcRunTime, xDisplayPrev>>

\* the UART0_Send... calls, which read the fields; xSemaphoreGive(xDisplayScreenMutex)
DisplayPrint ==
    /\ pcDisplay = "print"
    /\ xDisplayScreenMutex' = NoTask
    /\ pcDisplay' = "store"
    /\ UNCHANGED <<vars, pcRunTime, xDisplayPrev>>

\* ucPrevDriverHeatingLevel = ucDriverHeatingLevel; ... (lines 1077-1082)
DisplayStore ==
    /\ pcDisplay = "store"
    /\ xDisplayPrev' = [s \in Seats |-> DisplaySnapshot(s)]
    /\ pcDisplay' = "check"
    /\ UNCHANGED <<vars, xDisplayScreenMutex, pcRunTime>>

vDisplayScreenTask ==
    \/ Reported(DisplayCheck)
    \/ Reported(DisplayTake)
    \/ Reported(DisplayPrint)
    \/ Reported(DisplayStore)

(************************ vRunTimeMeasurementsTask *************************)
\* vTaskDelayUntil; xSemaphoreTake(xDisplayScreenMutex, portMAX_DELAY)
RunTimeTake ==
    /\ pcRunTime = "take"
    /\ xDisplayScreenMutex = NoTask
    /\ xDisplayScreenMutex' = RunTimeTask
    /\ pcRunTime' = "report"
    /\ UNCHANGED <<vars, pcDisplay, xDisplayPrev>>

\* the sum of ullTasksTotalTime, GPTM_WTimer0Read(), the UART0_Send... calls;
\* xSemaphoreGive(xDisplayScreenMutex)
RunTimeReport ==
    /\ pcRunTime = "report"
    /\ xDisplayScreenMutex' = NoTask
    /\ pcRunTime' = "take"
    /\ UNCHANGED <<vars, pcDisplay, xDisplayPrev>>

vRunTimeMeasurementsTask ==
    \/ Reported(RunTimeTake)
    \/ Reported(RunTimeReport)

(**************************** specifications *******************************)
\* the four tasks of one seat
SeatNext(s) ==
    \/ vSensorProcessTask(s)
    \/ vButtonsProcessTask(s)
    \/ vHeaterProcessTask(s)
    \/ vDiagnosticTask(s)

\* the pins of port F whose switch belongs to a seat in S
PortFPins(S) ==
    (IF "Passenger" \in S THEN {PF0} ELSE {}) \cup (IF "Driver" \in S THEN {PF4} ELSE {})

\* the interrupts of the switches of the running seats
InterruptNext ==
    \/ \E ris \in SUBSET {PF0, PF4} :
          ris \subseteq PortFPins(running) /\ Interrupted(ris, GPIO_PORTF_Handler(ris))
    \/ "Driver" \in running /\ Interrupted({PB1}, GPIO_PORTB_Handler)

\* the tasks of the running seats and the interrupts of their switches
Next ==
    \/ \E s \in Seats : SeatNext(s)
    \/ InterruptNext

\* the tasks of the running seats, the interrupts of their switches and the
\* display and run-time measurement tasks
NextProgram ==
    \/ Next
    \/ vDisplayScreenTask
    \/ vRunTimeMeasurementsTask

\* the whole program: both seats, every task, every switch
Spec == Init /\ HInit /\ [][NextProgram]_allvars

\* One seat at a time.  The seats share only the diagnostic array, so a run of
\* one seat alone is a run of the program in which the other seat's tasks are
\* idle and its switches untouched.
InitSeat(budget, inputs) ==
    \E s \in Seats : InitWith({s}, [t \in Seats |-> budget], inputs) /\ HInit

\* one seat at a time with a bounded number of control edges
InitSeatEdges(budget, inputs, edges) ==
    \E s \in Seats : InitEdges({s}, [t \in Seats |-> budget], inputs, edges) /\ HInit

\* samples of the seat specification: in range and below the range
SeatSamples == {4, 25}

\* every task and switch of one seat
SpecSeat == InitSeatEdges(MaxFaults, SeatSamples, MaxSeatEdges) /\ [][Next]_allvars

\* samples of the control specification
ControlSamples == {4, 25, 29}

\* the sensor, button and heater tasks of one seat and its switches: closed-loop
\* control without the diagnostic task
NextControl ==
    \/ \E s \in Seats : vSensorProcessTask(s) \/ vButtonsProcessTask(s) \/ vHeaterProcessTask(s)
    \/ InterruptNext

SpecControl == InitSeat(MaxFaults, ControlSamples) /\ [][NextControl]_allvars

\* the sensor and diagnostic tasks alone: fault detection, recovery and logging
\* (no switch is pressed: the heating level stays Off)
NextFault ==
    \E s \in Seats : vSensorProcessTask(s) \/ vDiagnosticTask(s)

\* samples of the fault specification: the boundaries of the valid range and
\* their neighbours outside it
FaultSamples == {4, 5, 40, 41}

\* fault detection and logging of one seat at a time
SpecFault == InitSeat(MaxFaultEdges, FaultSamples) /\ [][NextFault]_allvars

\* samples of the fair and the logging specification: one in range, one above
LogSamples == {25, 41}

\* Every task is an endless loop that the scheduler runs whenever it is the
\* highest-priority ready task; a task of higher priority blocks in vTaskDelay
\* or on a kernel object in every iteration, so no ready task waits for ever.
FairFault ==
    \A s \in Seats : WF_allvars(vSensorProcessTask(s)) /\ WF_allvars(vDiagnosticTask(s))

SpecFaultFair == InitSeat(MaxFaultEdges, LogSamples) /\ [][NextFault]_allvars /\ FairFault

\* fault logging of one seat at a time into the diagnostic array, with more
\* fault edges than the array has elements
SpecLog == InitSeat(MaxLogFaults, LogSamples) /\ [][NextFault]_allvars
(******************************* properties ********************************)
HeatingStates == {mainHEATER_STATE_LOW, mainHEATER_STATE_MEDIUM, mainHEATER_STATE_HIGH}

\* the decision step of a controller cycle of seat s
DecisionStep(s) == pcHeater[s] = "decide" /\ pcHeater'[s] = "update"

\* C1: a controller cycle whose decision is taken while the seat's error flag
\* is set writes heater state Off, whatever the heating level, the desired and
\* the current temperature are, and the heater state keeps that value until
\* the cycle ends (the mutexes are given back).
C1_FaultedCycleEndsOff ==
    [][\A s \in Seats :
          /\ (DecisionStep(s) /\ ucErrorFlag[s])
                => ucHeaterState'[s] = mainHEATER_STATE_OFF
          /\ pcHeater[s] \in {"update", "give"}
                => ucHeaterState'[s] = ucHeaterState[s]]_allvars

\* C1 witness: a cycle has just decided Off under a fault although the heater
\* was heating, the level is not Off and the desired temperature is at least
\* two degrees above the current one (no switch was pressed during the cycle).
C1_Witness ==
    \E s \in Seats :
        /\ pcHeater[s] = "update"
        /\ ucErrorFlag[s]
        /\ ucHeatingLevel[s] # mainHEATING_LEVEL_OFF
        /\ ucDesiredTemperature[s] >= ucTemperatureValue[s] + mainTEMP_DIFF_LOW_THRESHOLD
        /\ ucHeaterState[s] = mainHEATER_STATE_OFF
        /\ ucPrevHeaterState[s] \in HeatingStates
        /\ pcButton[s] = "wait"
        /\ xButtonsEventGroup[s] = {}

\* C2: in no reachable state is a seat's error flag set while its heater state
\* is Low, Medium or High.
C2_NoHeatWhileFault ==
    \A s \in Seats : ucErrorFlag[s] => ucHeaterState[s] \notin HeatingStates

\* C3: whenever a seat's red LED is on, its green and blue LEDs are off.
C3_RedImpliesHeaterLedsOff ==
    \A s \in Seats : ledRed[s] => (~ledGreen[s] /\ ~ledBlue[s])

\* the threshold table of the heater intensity: Off below 2, Low in [2,5),
\* Medium in [5,10), High from 10
ThresholdTable(diff) ==
    IF diff < mainTEMP_DIFF_LOW_THRESHOLD THEN mainHEATER_STATE_OFF
    ELSE IF diff < mainTEMP_DIFF_MEDIUM_THRESHOLD THEN mainHEATER_STATE_LOW
    ELSE IF diff < mainTEMP_DIFF_HIGH_THRESHOLD THEN mainHEATER_STATE_MEDIUM
    ELSE mainHEATER_STATE_HIGH

\* C4: a controller cycle that decides without a fault, with the level not Off
\* and the desired temperature not below the current one, leaves the heater
\* state equal to the threshold table of their difference, whatever the
\* heater state was before.
C4_DecisionMatchesTable ==
    [][\A s \in Seats :
          (/\ DecisionStep(s)
           /\ ~ucErrorFlag[s]
           /\ ucHeatingLevel[s] # mainHEATING_LEVEL_OFF
           /\ ucDesiredTemperature[s] >= ucTemperatureValue[s])
          => ucHeaterState'[s] =
                ThresholdTable(ucDesiredTemperature[s] - ucTemperatureValue[s])]_allvars

\* C5: the write index of the diagnostic array stays in 0..K-1 and no record
\* is written outside the K elements of the array.
C5_HistoryBounded ==
    /\ ucDiagnosticIndex \in 0..(mainDIAGNOSTIC_SIZE - 1)
    /\ xOverrun = {}

\* the sensor task of seat s is between two sampling cycles or inside one that
\* has not pushed, and the diagnostic task waits with no wake signal pending
FaultPathIdle(s) ==
    /\ pcSensor[s] \notin {"send", "give"}
    /\ pcDiagnostic[s] = "wait"
    /\ xErrorReportSemaphore[s] = 0

\* C6: each fault episode (the error flag rising, however many cycles the
\* reading then stays out of range) accounts for exactly one record pushed, one
\* wake signal given and one assertion of the fault indicator: whenever the
\* fault path of a seat is idle the four counts agree.
C6_OncePerEpisode ==
    \A s \in Seats :
        FaultPathIdle(s) =>
            /\ hPush[s] = hEdges[s]
            /\ hGive[s] = hEdges[s]
            /\ hRedOn[s] = hEdges[s]

\* C7: every record pushed to a seat's queue is eventually received by the
\* seat's diagnostic task: a queue that holds a record eventually is empty.
C7_EveryRecordReceived ==
    \A s \in Seats : (xDiagnosticQueue[s] # <<>>) ~> (xDiagnosticQueue[s] = <<>>)

\* the valid range of a reading, both ends included
InValidRange(t) == t >= mainTEMP_MIN_VALID_RANGE /\ t <= mainTEMP_MAX_VALID_RANGE

\* C8: a sampling cycle that finds the error flag set and the sample within
\* [5,40] clears the flag and goes on to switch the red LED off itself; that
\* step needs no other task (it is enabled as soon as the flag is cleared) and
\* ends the cycle with the flag clear and the red LED off.
C8_RecoveryInSameCycle ==
    [][\A s \in Seats :
          /\ (/\ pcSensor[s] = "check" /\ pcSensor'[s] # "check"
              /\ ucErrorFlag[s] /\ InValidRange(ucTemperatureValue[s]))
                => (~ucErrorFlag'[s] /\ pcSensor'[s] = "redOff")
          /\ pcSensor[s] = "redOff" => (~ucErrorFlag[s] /\ ENABLED SensorRedOff(s))
          /\ (pcSensor[s] = "redOff" /\ pcSensor'[s] # "redOff")
                => (~ledRed'[s] /\ ~ucErrorFlag'[s] /\ pcSensor'[s] = "take")]_allvars

\* C8 witness: the sensor task has cleared the flag of a fault whose indicator
\* is on, on a sample at a boundary of the range, and is about to switch the
\* red LED off while the diagnostic task waits.
C8_Witness ==
    \E s \in Seats :
        /\ pcSensor[s] = "redOff"
        /\ ledRed[s]
        /\ ~ucErrorFlag[s]
        /\ ucTemperatureValue[s] \in {mainTEMP_MIN_VALID_RANGE, mainTEMP_MAX_VALID_RANGE}
        /\ pcDiagnostic[s] = "wait"
        /\ xErrorReportSemaphore[s] = 0

\* the desired temperature of a heating level
DesiredOfLevel(level) ==
    CASE level = mainHEATING_LEVEL_OFF -> mainDESIRED_TEMP_OFF
      [] level = mainHEATING_LEVEL_LOW -> mainDESIRED_TEMP_LOW
      [] level = mainHEATING_LEVEL_MEDIUM -> mainDESIRED_TEMP_MEDIUM
      [] level = mainHEATING_LEVEL_HIGH -> mainDESIRED_TEMP_HIGH

\* C9: in every reachable state the desired temperature of each seat is the
\* one its heating level maps to.
C9_DesiredMatchesLevel ==
    \A s \in Seats : ucDesiredTemperature[s] = DesiredOfLevel(ucHeatingLevel[s])

\* C10: a wake-up of a seat's diagnostic task writes heater state Off, then
\* receives and stores one record, then switches the red LED on, in this order.
C10_WakeOrder ==
    \A s \in Seats :
        (pcDiagnostic[s] = "wait" /\ hWake[s] # <<>>)
            => hWake[s] = <<"heaterOff", "append", "indicator">>

(************************ C11: the field mutexes ****************************)
\* every task of one seat under fair scheduling.  A task blocked on a mutex is
\* readied by the kernel when the mutex is given, and every task of higher
\* priority blocks in vTaskDelayUntil or on a kernel object in each iteration:
\* a step that is enabled again and again is eventually taken.  Only the tasks
\* of the one running seat take steps, so fairness to "the sensor task of some
\* seat" is fairness to the sensor task of that seat.
FairSeat ==
    /\ SF_allvars(\E s \in Seats : vSensorProcessTask(s))
    /\ SF_allvars(\E s \in Seats : vButtonsProcessTask(s))
    /\ SF_allvars(\E s \in Seats : vHeaterProcessTask(s))
    /\ SF_allvars(\E s \in Seats : vDiagnosticTask(s))

SpecSeatFair ==
    InitSeatEdges(MaxFaults, LogSamples, MaxFairEdges) /\ [][Next]_allvars /\ FairSeat

\* the mutexes of seat s that a task holds
HeldBy(s, task) == {m \in Mutexes : xMutex[s][m] = task}

\* the first n mutexes of the heater task's acquisition order
TakenPrefix(n) == {HeaterTakeOrder[i] : i \in 1..n}

\* how many mutexes the heater task has acquired at each label
HeaterTakenAt(label) ==
    CASE label = "takeDesiredTemp" -> 0
      [] label = "takeHeaterState" -> 1
      [] label = "takeHeatingLevel" -> 2
      [] label = "takeTempValue" -> 3
      [] OTHER -> 4

HeaterTakeLabels == {"takeDesiredTemp", "takeHeaterState", "takeHeatingLevel", "takeTempValue"}

\* The heater task holds a prefix of its one acquisition order and gives the
\* mutexes back in the reverse order; each other task holds at most the one
\* mutex of its field, and only while it runs the statements between its take
\* and its give, where it waits for nothing.
MutexDiscipline ==
    /\ \A i \in 1..4 : HeaterGiveOrder[i] = HeaterTakeOrder[5 - i]
    /\ \A s \in Seats :
          /\ HeldBy(s, HeaterTask) = TakenPrefix(HeaterTakenAt(pcHeater[s]))
          /\ HeldBy(s, SensorTask) = IF pcSensor[s] = "sample" THEN {TempValueMutex} ELSE {}
          /\ HeldBy(s, ButtonTask) = IF pcButton[s] \in UpdateLabels THEN {DesiredTempMutex} ELSE {}
          /\ HeldBy(s, DiagnosticTask) =
                IF pcDiagnostic[s] = "off" THEN {HeaterStateMutex} ELSE {}

\* a task of the running seat that waits for a field mutex eventually holds it
MutexAcquired ==
    /\ (\E s \in running : pcSensor[s] = "take")
          ~> (\E s \in running : pcSensor[s] = "sample")
    /\ (\E s \in running : pcButton[s] = "take")
          ~> (\E s \in running : pcButton[s] = "update")
    /\ (\E s \in running : pcHeater[s] \in HeaterTakeLabels)
          ~> (\E s \in running : pcHeater[s] = "decide")
    /\ (\E s \in running : pcDiagnostic[s] = "takeMutex")
          ~> (\E s \in running : pcDiagnostic[s] = "off")

\* C11: no deadlock over the field mutexes: the heater task takes the four
\* mutexes in one fixed order and gives them back in reverse, every other task
\* holds at most one, and under fair scheduling every task that waits for a
\* field mutex eventually acquires it.
C11_NoMutexDeadlock ==
    /\ []MutexDiscipline
    /\ MutexAcquired

\* C11 witness: the heater task holds three mutexes and waits for the fourth,
\* which the sensor task holds, while the button task and the diagnostic task
\* wait for mutexes the heater task holds.
C11_Witness ==
    \E s \in Seats :
        /\ pcHeater[s] = "takeTempValue"
        /\ xMutex[s][TempValueMutex] = SensorTask
        /\ pcButton[s] = "take"
        /\ pcDiagnostic[s] = "takeMutex"

(********************** C12: appends of both seats **************************)
\* fault detection and logging of both seats at once: the two diagnostic tasks
\* (equal priority, main.c:264-265) share xDiagnosticArray and ucDiagnosticIndex
InitBoth(budget, inputs) ==
    InitWith(Seats, [s \in Seats |-> budget], inputs) /\ HInit

SpecLogBoth == InitBoth(MaxFaults, LogSamples) /\ [][NextFault]_allvars

\* the positions of a diagnostic task at the four stores
StoreLabels == {"storeSeat", "storeCode", "storeTimeStamp", "storeLevel"}

\* the diagnostic task of seat s is storing a record at ucDiagnosticIndex or
\* has stored it and has not yet incremented the index
InAppend(s) == pcDiagnostic[s] \in StoreLabels \cup {"increment"}

\* C12: the appends of the two diagnostic tasks are serialized: the two tasks
\* are never both between reading the write index and incrementing it.
C12_AppendsSerialized ==
    ~(InAppend("Driver") /\ InAppend("Passenger"))

(***************************** C13: LED updates *****************************)
\* C13: while the error flag of a seat stays set and the heater state is Off,
\* the controller cycles of that seat write the heater LEDs at most once
\* (hFaultWrites counts the cycles of the present fault that wrote them).
C13_FaultWriteOnce == \A s \in Seats : hFaultWrites[s] <= 1

(**************************** C14: full history *****************************)
\* the diagnostic task of seat s appends: it completes the stores of the
\* received record
AppendStep(s) == pcDiagnostic[s] = "storeLevel" /\ pcDiagnostic'[s] = "increment"

\* the records the K elements of the diagnostic array hold
HistoryRecords(array) == {array[i] : i \in DOMAIN array}

\* C14: every append, also one into a history that already holds K records,
\* leaves the appended record in the history (the oldest record makes room).
C14_AppendKeepsNewest ==
    [][\A s \in Seats :
         AppendStep(s) => xlogDiagnostic'[s] \in HistoryRecords(xDiagnosticArray')]_allvars

(************************* C15: a persisting fault **************************)
\* the sensor, heater and diagnostic tasks (no switch is pressed)
NextEpisode ==
    \E s \in Seats : vSensorProcessTask(s) \/ vHeaterProcessTask(s) \/ vDiagnosticTask(s)

FairEpisode ==
    /\ SF_allvars(\E s \in Seats : vSensorProcessTask(s))
    /\ SF_allvars(\E s \in Seats : vHeaterProcessTask(s))
    /\ SF_allvars(\E s \in Seats : vDiagnosticTask(s))

\* one seat, two fault edges, fair scheduling
SpecEpisodeFair ==
    InitSeat(MaxFaultEdges, LogSamples) /\ [][NextEpisode]_allvars /\ FairEpisode

\* the record of the present fault episode of seat s is in the diagnostic array
EpisodeLogged(s) == hEpisode[s] \in HistoryRecords(xDiagnosticArray)

\* the fault of seat s has been handled: heater Off, record logged, red LED on
FaultHandled(s) ==
    /\ ucHeaterState[s] = mainHEATER_STATE_OFF
    /\ EpisodeLogged(s)
    /\ ledRed[s]

\* C15: under fair scheduling a fault that persists (the error flag of the
\* seat stays set) is eventually handled: the heater state is Off, the record
\* of the episode is in the diagnostic array and the red LED is on.
C15_PersistingFaultHandled ==
    \A s \in Seats : ucErrorFlag[s] ~> (~ucErrorFlag[s] \/ FaultHandled(s))

(******************** C16: over-range fault and recovery ********************)
\* the samples of the scenario: one above the valid range, one inside it
ScenarioSamples == {33, 45}

\* one seat, every task, one fault edge, control edges up to level High
SpecScenario ==
    InitSeatEdges(MaxFaults, ScenarioSamples, MaxScenarioEdges) /\ [][Next]_allvars

\* the sensor task of seat s detects a fault edge
FaultEdgeStep(s) == pcSensor[s] = "check" /\ pcSensor'[s] = "send"

\* the sensor task of seat s pushes a record
PushStep(s) == pcSensor[s] = "send" /\ pcSensor'[s] = "give"

\* the sensor task of seat s finds the sample back in range with the flag set
RecoveryStep(s) == pcSensor[s] = "check" /\ pcSensor'[s] = "redOff"

\* the record of an over-range fault at heating level High
OverRangeAtHigh(s) ==
    [uiTimeStamp |-> uiTimer, ucHeatingLevel |-> mainHEATING_LEVEL_HIGH,
     ucFailureCode |-> mainTEMP_OVER_RANGE_FAIL, ucFailureSeat |-> ucFailureSeatOf(s)]

\* a sample of 45 at level High and no fault builds one over-range record, and
\* the record is pushed once: the pushes never outnumber the fault edges
ScenarioRecord ==
    /\ [][\A s \in Seats :
            (/\ pcSensor[s] = "check" /\ pcSensor'[s] # "check"
             /\ ucTemperatureValue[s] = 45 /\ ~ucErrorFlag[s]
             /\ ucHeatingLevel[s] = mainHEATING_LEVEL_HIGH)
            => /\ FaultEdgeStep(s)
               /\ ucErrorFlag'[s]
               /\ xlogSensor'[s] = OverRangeAtHigh(s)]_allvars
    /\ [][\A s \in Seats :
            PushStep(s) => /\ xDiagnosticQueue'[s] = Append(xDiagnosticQueue[s], hEpisode[s])
                           /\ hPush'[s] = hEdges[s]]_allvars
    /\ [](\A s \in Seats : hPush[s] <= hEdges[s])

\* the wake-up of the diagnostic task writes heater state Off and switches the
\* red LED on; once it has done so for the fault and while the fault lasts,
\* the heater state is Off and the red LED on
ScenarioForcedOff ==
    /\ [][\A s \in Seats :
            /\ (pcDiagnostic[s] = "off" /\ pcDiagnostic'[s] # "off")
                  => ucHeaterState'[s] = mainHEATER_STATE_OFF
            /\ (pcDiagnostic[s] = "redOn" /\ pcDiagnostic'[s] # "redOn")
                  => ledRed'[s]]_allvars
    /\ [](\A s \in Seats :
            (ucErrorFlag[s] /\ hRedOn[s] = hEdges[s])
               => (ucHeaterState[s] = mainHEATER_STATE_OFF /\ ledRed[s]))

\* a sample of 33 with the flag set clears the flag and the sensor task goes
\* on to switch the red LED off
ScenarioRecovery ==
    /\ [][\A s \in Seats :
            (/\ pcSensor[s] = "check" /\ pcSensor'[s] # "check"
             /\ ucTemperatureValue[s] = 33 /\ ucErrorFlag[s])
            => RecoveryStep(s) /\ ~ucErrorFlag'[s]]_allvars
    /\ [][\A s \in Seats :
            (pcSensor[s] = "redOff" /\ pcSensor'[s] # "redOff") => ~ledRed'[s]]_allvars

\* the controller cycle after the recovery thresholds again: level High,
\* desired 35, current 33 give Low whatever the heater state was
ScenarioResume ==
    [][\A s \in Seats :
         (/\ DecisionStep(s)
          /\ ~ucErrorFlag[s]
          /\ ucHeatingLevel[s] = mainHEATING_LEVEL_HIGH
          /\ ucDesiredTemperature[s] = mainDESIRED_TEMP_HIGH
          /\ ucTemperatureValue[s] = 33)
         => ucHeaterState'[s] = mainHEATER_STATE_LOW]_allvars

\* C16: at level High with no fault a sample of 45 produces exactly one record,
\* of kind over-range; the heater state is forced Off and the red LED set; a
\* later sample of 33 clears the error flag and the red LED on that sample, and
\* the next controller cycle (desired 35, current 33) sets the heater state Low.
C16_OverRangeScenario ==
    /\ ScenarioRecord
    /\ ScenarioForcedOff
    /\ ScenarioRecovery
    /\ ScenarioResume

\* the scenario has played out: the over-range record taken at level High is
\* in the array, the fault is over, and a cycle has set the heater state Low
C16_Witness ==
    \E s \in Seats :
        /\ hEdges[s] = 1
        /\ hEpisode[s].ucFailureCode = mainTEMP_OVER_RANGE_FAIL
        /\ hEpisode[s].ucHeatingLevel = mainHEATING_LEVEL_HIGH
        /\ EpisodeLogged(s)
        /\ ~ucErrorFlag[s] /\ ~ledRed[s]
        /\ ucTemperatureValue[s] = 33
        /\ ucDesiredTemperature[s] = mainDESIRED_TEMP_HIGH
        /\ ucHeaterState[s] = mainHEATER_STATE_LOW
        /\ pcHeater[s] = "update"

(************************** C17: the level cycle ****************************)
\* one seat, the sensor, button and heater tasks, four control edges
SpecCycle ==
    InitSeatEdges(MaxFaults, ControlSamples, MaxCycleEdges) /\ [][NextControl]_allvars

\* the control edges handled so far
EdgesHandled == MaxCycleEdges - edgeBudget

\* the button task of seat s has run after the latest control edge: it waits
\* and no event bit is pending
SelectorSettled(s) == pcButton[s] = "wait" /\ xButtonsEventGroup[s] = {}

LevelCycle ==
    <<mainHEATING_LEVEL_LOW, mainHEATING_LEVEL_MEDIUM, mainHEATING_LEVEL_HIGH,
      mainHEATING_LEVEL_OFF>>

DesiredCycle ==
    <<mainDESIRED_TEMP_LOW, mainDESIRED_TEMP_MEDIUM, mainDESIRED_TEMP_HIGH,
      mainDESIRED_TEMP_OFF>>

\* the place of the k-th edge in the cycle of four
CyclePosition(k) == ((k - 1) % Len(LevelCycle)) + 1

\* C17: from level Off and desired temperature 0, the k-th of four successive
\* control edges of a seat leaves the heating level at Low, Medium, High, Off
\* (k = 1..4), and the run of the seat's button task that follows it leaves
\* the desired temperature at 25, 30, 35, 0.
C17_LevelCycle ==
    \A s \in running :
        EdgesHandled \in 1..MaxCycleEdges =>
            /\ ucHeatingLevel[s] = LevelCycle[CyclePosition(EdgesHandled)]
            /\ SelectorSettled(s) =>
                  ucDesiredTemperature[s] = DesiredCycle[CyclePosition(EdgesHandled)]

\* after the third edge and the run of the button task: level High, desired 35
C17_Witness ==
    \E s \in running :
        /\ EdgesHandled = 3
        /\ SelectorSettled(s)
        /\ ucHeatingLevel[s] = mainHEATING_LEVEL_HIGH
        /\ ucDesiredTemperature[s] = mainDESIRED_TEMP_HIGH

(********************* C18: warmer than desired *****************************)
\* samples of the drift specification: below and above the desired temperature
\* of level Medium, and one below the valid range
DriftSamples == {4, 22, 32}

\* one seat, the sensor, button and heater tasks, control edges up to Medium
SpecDrift ==
    InitSeatEdges(MaxFaults, DriftSamples, MaxSeatEdges) /\ [][NextControl]_allvars

\* C18: a controller cycle that decides with the error flag clear, the heating
\* level not Off and the desired temperature below the current one leaves the
\* heater state Off, whatever it was; a cycle with desired 30 and current 22
\* leaves it Medium (and a following cycle with current 32 leaves it Off).
C18_WarmerThanDesiredOff ==
    [][\A s \in Seats :
         (/\ DecisionStep(s)
          /\ ~ucErrorFlag[s]
          /\ ucHeatingLevel[s] # mainHEATING_LEVEL_OFF)
         => /\ (ucDesiredTemperature[s] < ucTemperatureValue[s])
                  => ucHeaterState'[s] = mainHEATER_STATE_OFF
            /\ (ucDesiredTemperature[s] = 30 /\ ucTemperatureValue[s] = 22)
                  => ucHeaterState'[s] = mainHEATER_STATE_MEDIUM]_allvars

\* a cycle has decided Off with desired 30 and current 32 after the cycle
\* before it had commanded Medium
C18_Witness ==
    \E s \in Seats :
        /\ pcHeater[s] = "update"
        /\ ucPrevHeaterState[s] = mainHEATER_STATE_MEDIUM
        /\ ucHeaterState[s] = mainHEATER_STATE_OFF
        /\ ~ucErrorFlag[s]
        /\ ucHeatingLevel[s] = mainHEATING_LEVEL_MEDIUM
        /\ ucDesiredTemperature[s] = 30
        /\ ucTemperatureValue[s] = 32

(********************* C19: the interrupt handlers **************************)
\* the pin of port F whose switch belongs to seat s
PortFPin(s) == IF s = "Driver" THEN PF4 ELSE PF0

\* the environment can still produce a control edge
EdgeAvailable == edgeBudget = Unbounded \/ edgeBudget >= 1

\* a control edge of a running seat can be handled in the present state
HandlersEnabled ==
    /\ \A s \in running : ENABLED Observed(GPIO_PORTF_Handler({PortFPin(s)}))
    /\ "Driver" \in running => ENABLED Observed(GPIO_PORTB_Handler)

\* a handler runs: only the handlers change a heating level
HandlerStep == ucHeatingLevel' # ucHeatingLevel

\* C19: the port F and port B handlers never block: in every reachable state,
\* whatever mutexes are held and whichever tasks are blocked, a control edge is
\* handled in one step, and that step takes no mutex, no semaphore and no
\* queue element and leaves every task where it is.
C19_HandlersNeverBlock ==
    /\ [](EdgeAvailable => HandlersEnabled)
    /\ [][HandlerStep =>
            UNCHANGED <<xMutex, xErrorReportSemaphore, xDiagnosticQueue, pcVars>>]_allvars

\* a control edge has been handled and another can be, while the heater task
\* holds the heating level mutex and the diagnostic task is blocked on the
\* heater state mutex
C19_Witness ==
    \E s \in running :
        /\ ucHeatingLevel[s] # mainHEATING_LEVEL_OFF
        /\ EdgeAvailable
        /\ HandlersEnabled
        /\ xMutex[s][HeatingLevelMutex] = HeaterTask
        /\ xMutex[s][HeaterStateMutex] = HeaterTask
        /\ pcDiagnostic[s] = "takeMutex"

(************************* C20: the writer roles ****************************)
\* a task of seat s takes a step: its position changes
SensorStep(s) == pcSensor'[s] # pcSensor[s]
ButtonStep(s) == pcButton'[s] # pcButton[s]
HeaterStep(s) == pcHeater'[s] # pcHeater[s]
DiagnosticStep(s) == pcDiagnostic'[s] # pcDiagnostic[s]

\* an interrupt handler runs: every step of a task moves the task, a handler
\* moves none and sets an event bit of the seat
InterruptStep(s) ==
    /\ UNCHANGED pcVars
    /\ xButtonsEventGroup'[s] \cap xBitsToWaitFor(s) # {}

SeatState(t) ==
    <<ucHeatingLevel[t], ucDesiredTemperature[t], ucTemperatureValue[t],
      ucErrorFlag[t], ucHeaterState[t], xDiagnosticQueue[t],
      xErrorReportSemaphore[t], xButtonsEventGroup[t], xMutex[t],
      ledRed[t], ledGreen[t], ledBlue[t],
      pcSensor[t], pcButton[t], pcHeater[t], pcDiagnostic[t],
      xlogSensor[t], xlogDiagnostic[t], ucPrevHeaterState[t]>>

\* a task of seat s takes a step
TaskStep(s) == SensorStep(s) \/ ButtonStep(s) \/ HeaterStep(s) \/ DiagnosticStep(s)

SpecReport ==
    InitSeatEdges(MaxFaults, LogSamples, MaxFairEdges) /\ [][NextProgram]_allvars

\* the display task or the run-time measurement task takes a step
ReporterStep == pcDisplay' # pcDisplay \/ pcRunTime' # pcRunTime

\* C22: the display task and the run-time measurement task never change core
\* state: each of their steps leaves the fields, the diagnostic queues, the
\* error-report semaphores and the diagnostic array of both seats unchanged,
\* and neither task ever holds a field mutex.
C22_ReportersReadOnly ==
    /\ [][ReporterStep =>
            UNCHANGED <<fieldVars, xDiagnosticQueue, xErrorReportSemaphore,
                        diagVars, xMutex>>]_allvars
    /\ [](\A s \in Seats : \A m \in Mutexes :
             xMutex[s][m] \notin {DisplayTask, RunTimeTask})

\* the display task has found a change of a seat under a fault, holds the
\* screen mutex and prints, while a task of the seat holds a field mutex
C22_Witness ==
    /\ pcDisplay = "print"
    /\ xDisplayScreenMutex = DisplayTask
    /\ \E s \in running :
          /\ ucErrorFlag[s]
          /\ ucHeatingLevel[s] # mainHEATING_LEVEL_OFF
          /\ \E m \in Mutexes : xMutex[s][m] # NoTask

(************************** C23: the LED encoding ***************************)
\* samples of the encoding specification: with the desired temperatures 25,
\* 30 and 35 they give every heater state; 4 is below the valid range
EncodeSamples == {4, 25, 33}

\* one seat, the sensor, button and heater tasks, control edges up to High
SpecEncode ==
    InitSeatEdges(MaxFaults, EncodeSamples, MaxScenarioEdges) /\ [][NextControl]_allvars

\* the heater task of seat s writes the LEDs
LedWriteStep(s) ==
    /\ pcHeater[s] = "update" /\ pcHeater'[s] = "give"
    /\ (ucPrevHeaterState[s] # ucHeaterState[s] \/ ucErrorFlag[s])

\* the colours of the heater states: <<green, blue>>
LedEncoding(state) ==
    CASE state = mainHEATER_STATE_OFF -> <<FALSE, FALSE>>
      [] state = mainHEATER_STATE_LOW -> <<TRUE, FALSE>>
      [] state = mainHEATER_STATE_MEDIUM -> <<FALSE, TRUE>>
      [] state = mainHEATER_STATE_HIGH -> <<TRUE, TRUE>>

\* C23: whenever the heater task of a seat writes the LEDs, the green and the
\* blue LED of the seat encode the heater state: Off neither, Low green,
\* Medium blue, High both; the encoding is the same for both seats.
C23_LedsEncodeState ==
    [][\A s \in Seats :
         LedWriteStep(s) =>
            <<ledGreen'[s], ledBlue'[s]>> = LedEncoding(ucHeaterState[s])]_allvars

\* the heater task has written cyan for High
C23_Witness ==
    \E s \in Seats :
        /\ pcHeater[s] = "give"
        /\ ucHeaterState[s] = mainHEATER_STATE_HIGH
        /\ ucPrevHeaterState[s] = mainHEATER_STATE_HIGH
        /\ ledGreen[s] /\ ledBlue[s]

(********************** C24: the fields of a record *************************)
\* the record the sensor task of seat s builds at a fault edge: the failure
\* code says on which side of the range the sample lies, the seat is s and the
\* heating level is that of s at the construction
RecordBuilt(s) ==
    /\ (xlogSensor'[s].ucFailureCode = mainTEMP_OVER_RANGE_FAIL
           <=> ucTemperatureValue[s] > mainTEMP_MAX_VALID_RANGE)
    /\ (xlogSensor'[s].ucFailureCode = mainTEMP_UNDER_RANGE_FAIL
           <=> ucTemperatureValue[s] < mainTEMP_MIN_VALID_RANGE)
    /\ xlogSensor'[s].ucFailureSeat = ucFailureSeatOf(s)
    /\ xlogSensor'[s].ucHeatingLevel = ucHeatingLevel[s]

\* the record pushed is the record built
RecordPushed(s) ==
    /\ xDiagnosticQueue'[s] # <<>>
    /\ xDiagnosticQueue'[s][Len(xDiagnosticQueue'[s])] = xlogSensor[s]

\* the slot of the history the append wrote holds the record received
RecordStored(s) ==
    ucDiagnosticIndex < mainDIAGNOSTIC_SIZE
        => xDiagnosticArray'[ucDiagnosticIndex] = xlogDiagnostic[s]

\* C24: the record built at a fault edge carries the kind of the fault
\* (over-range iff the sample is above 40, under-range iff it is below 5), the
\* seat of the sensor task and the heating level of that seat at construction;
\* that record is the one pushed, and the record an append leaves in the
\* history has the four fields of the record pushed.
C24_RecordFaithful ==
    [][\A s \in Seats :
         /\ FaultEdgeStep(s) => RecordBuilt(s)
         /\ PushStep(s) => RecordPushed(s)
         /\ AppendStep(s) => RecordStored(s)]_allvars

(************************* C25: the closed range ****************************)
\* the ends of the valid range and their neighbours outside it
RangeEnds == {5, 40}

RangeNeighbours == {4, 41}

\* the sensor task of seat s checks the sample it has read
CheckStep(s) == pcSensor[s] = "check" /\ pcSensor'[s] # "check"

\* a record enters the queue of seat s
QueueGrows(s) == Len(xDiagnosticQueue'[s]) > Len(xDiagnosticQueue[s])

\* C25: the valid range is the closed interval [5,40].  A sensor cycle whose
\* sample is 5 or 40 leaves the error flag clear and pushes no record; a cycle
\* that starts with the flag clear and whose sample is 4 or 41 sets the flag
\* and goes on to push exactly one record before it ends.
C25_ClosedRange ==
    [][\A s \in Seats :
         /\ (CheckStep(s) /\ ucTemperatureValue[s] \in RangeEnds)
               => (~ucErrorFlag'[s] /\ pcSensor'[s] \in {"take", "redOff"})
         /\ (CheckStep(s) /\ ucTemperatureValue[s] \in RangeNeighbours /\ ~ucErrorFlag[s])
               => (ucErrorFlag'[s] /\ pcSensor'[s] = "send")
         /\ QueueGrows(s)
               => (/\ PushStep(s)
                   /\ Len(xDiagnosticQueue'[s]) = Len(xDiagnosticQueue[s]) + 1)
         /\ (pcSensor[s] = "send" /\ SensorStep(s)) => (QueueGrows(s) /\ pcSensor'[s] = "give")
         /\ (pcSensor[s] = "give" /\ SensorStep(s))
               => (pcSensor'[s] = "take" /\ xDiagnosticQueue'[s] = xDiagnosticQueue[s])]_allvars

\* a cycle on the sample 41 that started with the flag clear has set the flag
\* and pushed its one record
C25_Witness ==
    \E s \in Seats :
        /\ pcSensor[s] = "give"
        /\ ucTemperatureValue[s] = 41
        /\ ucErrorFlag[s]
        /\ hPush[s] = 1 /\ hEdges[s] = 1

(********************** C26: the driver's two switches **********************)
\* control edges of the switch specification: more than one turn of the cycle
MaxSwitchEdges == 5

\* both seats, no fault: the button and heater tasks and the three switches
InitSwitch ==
    InitEdges(Seats, [s \in Seats |-> MaxFaults], {}, MaxSwitchEdges) /\ HInit

NextSwitch ==
    \/ \E s \in Seats : vButtonsProcessTask(s) \/ vHeaterProcessTask(s)
    \/ InterruptNext

SpecSwitch == InitSwitch /\ [][NextSwitch]_allvars

\* the handlers serve an edge of a switch of seat s
SwitchStep(s) == hSwitch'[s] # hSwitch[s]

\* the button task of seat s has an event bit to wake up for
SelectorWoken(s) == xButtonsEventGroup'[s] \cap xBitsToWaitFor(s) # {}

\* C26: SW1 and SW3 both increment the driver's heating level.  After any
\* interleaving of n edges on the switches of a seat (SW1 and SW3 for the
\* driver, SW2 for the passenger) the heating level of the seat is n modulo 4
\* (the levels start at Off = 0), so no increment is lost and an edge on SW2
\* leaves the driver's level alone; every edge leaves an event bit that wakes
\* the button task of its seat.
C26_SwitchesFunnel ==
    /\ [](\A s \in Seats : ucHeatingLevel[s] = hSwitch[s])
    /\ [][\A s \in Seats : SwitchStep(s) => SelectorWoken(s)]_allvars

\* five edges of SW1, SW2 and SW3 have been served: the driver's level has
\* gone through the whole cycle back to Off and the passenger's is Low
C26_Witness ==
    /\ MaxSwitchEdges - edgeBudget = 5
    /\ hSwitch = [s \in Seats |-> IF s = "Driver" THEN 0 ELSE 1]
    /\ ucHeatingLevel["Driver"] = mainHEATING_LEVEL_OFF
    /\ ucHeatingLevel["Passenger"] = mainHEATING_LEVEL_LOW
    /\ xButtonsEventGroup["Driver"] = {mainSW1_INTERRUPT_BIT, mainSW3_INTERRUPT_BIT}
(*********************** C27: coalesced control edges ***********************)
\* fair scheduling of the button and the heater task of the running seat
FairSelect ==
    /\ SF_allvars(\E s \in Seats : vButtonsProcessTask(s))
    /\ SF_allvars(\E s \in Seats : vHeaterProcessTask(s))

\* one seat, no fault: the button task, the heater task and four control
\* edges that arrive before, between and during the runs of the button task
SpecSelectFair ==
    InitSeatEdges(MaxFaults, {}, MaxCycleEdges) /\ [][NextSwitch]_allvars /\ FairSelect

\* C27: control edges may be coalesced in the event group, but no wake-up is
\* lost: whenever the button task of a seat waits and no event bit is pending,
\* the desired temperature is the one of the present heating level, however
\* the edges fall before and during the runs of the task (also between two
\* comparisons of its if-chain); under fair scheduling that state is reached
\* after the last edge.
C27_NoLostWakeup ==
    /\ [](\A s \in running :
            SelectorSettled(s) => ucDesiredTemperature[s] = DesiredOfLevel(ucHeatingLevel[s]))
    /\ (edgeBudget = 0) ~> (\A s \in running : SelectorSettled(s))

\* the fourth edge has arrived between two comparisons of the if-chain: the
\* chain is about to fall through with the level back at Off, the desired
\* temperature is still that of Medium and the event bit is pending again
C27_Witness ==
    \E s \in running :
        /\ EdgesHandled = 4
        /\ pcButton[s] = "updateHigh"
        /\ ucHeatingLevel[s] = mainHEATING_LEVEL_OFF
        /\ ucDesiredTemperature[s] = mainDESIRED_TEMP_MEDIUM
        /\ xButtonsEventGroup[s] # {}

(******************** C28: no mutex held while blocked **********************)
\* the positions at which a task waits for something other than a field
\* mutex: the sensor task in vTaskDelayUntil (before its take) and in
\* xQueueSend, the button task in xEventGroupWaitBits, the heater task in
\* vTaskDelay (before its first take), the diagnostic task in xSemaphoreTake
\* on the error-report semaphore and in xQueueReceive
SensorBlocked(s) == pcSensor[s] \in {"take", "send"}

ButtonBlocked(s) == pcButton[s] = "wait"

HeaterBlocked(s) == pcHeater[s] = "takeDesiredTemp"

DiagnosticBlocked(s) == pcDiagnostic[s] \in {"wait", "receive"}

\* C28: no task holds a field mutex while it is blocked on a queue push or
\* pop, on a wake signal, on the event group or in its periodic delay: the
\* sensor task has given the temperature mutex before it pushes, the
\* diagnostic task has given the heater state mutex before it receives, and
\* the heater task has given all four before its delay.
C28_NoMutexWhileBlocked ==
    \A s \in Seats :
        /\ SensorBlocked(s) => HeldBy(s, SensorTask) = {}
        /\ ButtonBlocked(s) => HeldBy(s, ButtonTask) = {}
        /\ HeaterBlocked(s) => HeldBy(s, HeaterTask) = {}
        /\ DiagnosticBlocked(s) => HeldBy(s, DiagnosticTask) = {}

\* the driver's diagnostic task has switched the heater off and given the
\* heater state mutex, which the heater task has taken since, and is about to
\* receive the record; the sensor task is in its delay and the button task
\* waits for an edge
C28_Witness ==
    /\ pcDiagnostic["Driver"] = "receive"
    /\ xDiagnosticQueue["Driver"] # <<>>
    /\ xMutex["Driver"][HeaterStateMutex] = HeaterTask
    /\ pcSensor["Driver"] = "take"
    /\ pcButton["Driver"] = "wait"

(********************* C29: the controller's snapshot ***********************)
\* the heater task of seat s holds the four field mutexes: from its last take
\* to its gives
HeaterHoldsAll(s) == pcHeater[s] \in {"decide", "update", "give"}

\* the four fields of seat s that a controller cycle reads
SnapshotOf(s) ==
    <<ucHeatingLevel[s], ucDesiredTemperature[s], ucTemperatureValue[s], ucErrorFlag[s]>>

\* C29: while the heater task of a seat holds the four field mutexes, the
\* heating level, the desired temperature, the temperature and the error flag
\* of the seat do not change, so the error flag and the heating level of the
\* decision are those of the test that guards the LED write.
C29_ConsistentSnapshot ==
    [][\A s \in Seats : HeaterHoldsAll(s) => SnapshotOf(s)' = SnapshotOf(s)]_allvars

(************************* C30: heating level Off ***************************)
\* C30: a controller cycle whose decision finds the heating level Off writes
\* heater state Off, whatever the desired temperature, the temperature, the
\* error flag and the previous heater state are, and the heater state keeps
\* the decided value until the end of the cycle.
C30_OffLevelEndsOff ==
    [][\A s \in Seats :
          /\ (DecisionStep(s) /\ ucHeatingLevel[s] = mainHEATING_LEVEL_OFF)
                => ucHeaterState'[s] = mainHEATER_STATE_OFF
          /\ (HeaterHoldsAll(s) /\ ~DecisionStep(s))
                => ucHeaterState'[s] = ucHeaterState[s]]_allvars

\* the fourth edge has brought the level back to Off while the heater was on
\* High and no fault has ever occurred; the cycle has decided Off although the
\* desired temperature, which the button task has not yet reset, is ten
\* degrees above the temperature
C30_Witness ==
    \E s \in running :
        /\ pcHeater[s] = "update"
        /\ EdgesHandled = 4
        /\ faultBudget[s] = MaxFaults
        /\ ucHeatingLevel[s] = mainHEATING_LEVEL_OFF
        /\ ucDesiredTemperature[s] = mainDESIRED_TEMP_HIGH
        /\ ucTemperatureValue[s] = 25
        /\ ucPrevHeaterState[s] = mainHEATER_STATE_HIGH
        /\ ucHeaterState[s] = mainHEATER_STATE_OFF

(*************************** C31: the initial state *************************)
\* what main has set up when the scheduler starts
InitialFacts ==
    /\ \A s \in Seats :
          /\ ucHeatingLevel[s] = mainHEATING_LEVEL_OFF
          /\ ucDesiredTemperature[s] = 0
          /\ ucHeaterState[s] = mainHEATER_STATE_OFF
          /\ ucErrorFlag[s] = FALSE
          /\ xDiagnosticQueue[s] = <<>>
          /\ xErrorReportSemaphore[s] = 0
    /\ ucDiagnosticIndex = 0
    /\ \A i \in DOMAIN xDiagnosticArray : xDiagnosticArray[i] = xFailureLogZero
    /\ xOverrun = {}
    /\ uxQueueLength = 3

\* C31: in the initial state, for both seats, the heating level is Off, the
\* desired temperature 0, the heater state Off and the error flag clear; the
\* diagnostic array is empty (index 0), both diagnostic queues are empty and
\* have room for three records, and neither error-report semaphore is
\* available.  (The second conjunct says that a queue never holds more than
\* its three records.)
C31_InitialState ==
    /\ InitialFacts
    /\ [](\A s \in Seats : Len(xDiagnosticQueue[s]) <= 3)

\* the program at its start: every task at the head of its loop, nothing
\* sampled, no switch pressed, no fault
C31_Witness ==
    /\ \A s \in Seats :
          /\ pcSensor[s] = "take" /\ pcButton[s] = "wait"
          /\ pcHeater[s] = "takeDesiredTemp" /\ pcDiagnostic[s] = "wait"
          /\ ucPrevHeaterState[s] = ucPrevHeaterStateInit
          /\ hEdges[s] = 0 /\ hSwitch[s] = 0
          /\ xMutex[s] = [m \in Mutexes |-> NoTask]
          /\ ucTemperatureValue[s] = 0
    /\ uiTimer = 0
    /\ ucDiagnosticIndex = 0

(******************* C32: sensor and diagnostic task ************************)
\* the sensor task of seat s is blocked in xQueueSend: the queue is full
SensorBlockedOnFullQueue(s) ==
    pcSensor[s] = "send" /\ Len(xDiagnosticQueue[s]) = uxQueueLength

\* the diagnostic task of seat s is blocked on the error-report semaphore,
\* which is not available
DiagnosticIdle(s) == pcDiagnostic[s] = "wait" /\ xErrorReportSemaphore[s] = 0

\* C32: the sensor task and the diagnostic task of a seat never block each
\* other for ever: in no reachable state is the sensor task blocked pushing to
\* the full queue while the diagnostic task of the seat waits for the
\* semaphore and none is available, whatever the fault and recovery edges are.
C32_NoQueueDeadlock ==
    \A s \in Seats : ~(SensorBlockedOnFullQueue(s) /\ DiagnosticIdle(s))

\* the sensor task is blocked pushing the fourth record to the full queue; the
\* diagnostic task waits, and the semaphore given after the third push is
\* still available, so it will run and make room
C32_Witness ==
    \E s \in Seats :
        /\ SensorBlockedOnFullQueue(s)
        /\ pcDiagnostic[s] = "wait"
        /\ xErrorReportSemaphore[s] = 1
        /\ hEdges[s] = 4

(*********************** C33: a stale fault indicator ***********************)
\* C33: the red LED of a seat does not stay on for a fault that is over: in
\* every reachable state in which the error flag of the seat is clear, the
\* sensor task has completed the write that switches the red LED off, and the
\* diagnostic task of the seat waits for the semaphore with none available,
\* the red LED of the seat is off.
C33_NoStaleIndicator ==
    \A s \in Seats :
        (~ucErrorFlag[s] /\ pcSensor[s] # "redOff" /\ DiagnosticIdle(s)) => ~ledRed[s]

(******************* C34: the flag precedes the record ********************)
\* fault edges of the seat in the episode specification: four, so that the
\* fourth record finds the queue full
MaxEpisodeFaults == 4

\* control edges of the seat in the episode specification: level Low is selected
MaxEpisodeEdges == 1

\* samples of the episode specification: one below the valid range, for which
\* the decision of the controller depends on the error flag alone once a level
\* is selected, and one inside it
EpisodeSamples == {4, 22}

\* the driver seat alone, with enough fault edges to fill its queue
InitEpisode ==
    /\ InitEdges({"Driver"}, [t \in Seats |-> MaxEpisodeFaults], EpisodeSamples,
                 MaxEpisodeEdges)
    /\ HInit

\* every task and switch of the driver seat
SpecEpisode == InitEpisode /\ [][Next]_allvars

\* the sensor task of seat s has built the record of a fault edge and has not
\* yet given the error-report semaphore for it: it is about to push the record
\* (blocked while the queue is full) or has pushed it
SensorReporting(s) == pcSensor[s] \in {"send", "give"}

\* the latest sample of seat s has been checked and is out of range, and the
\* record built at the latest fault edge is still in the queue
EpisodeAwaiting(s) ==
    /\ OutOfRange(ucTemperatureValue[s])
    /\ pcSensor[s] # "check"
    /\ \E i \in 1..Len(xDiagnosticQueue[s]) : xDiagnosticQueue[s][i] = hEpisode[s]

\* the decision step of a controller cycle of seat s
DecideStep(s) == pcHeater[s] = "decide" /\ pcHeater'[s] = "update"

\* C34: the sensor task sets the error flag before it pushes the record and
\* before it gives the semaphore.  In every reachable state in which the sensor
\* task is blocked on the full queue, is between the check and the give, or the
\* record of the present fault is in the queue, the error flag is set; and the
\* decision of a controller cycle taken in such a state is Off.
C34_FlagBeforeRecord ==
    /\ [](\A s \in Seats :
            (SensorBlockedOnFullQueue(s) \/ SensorReporting(s) \/ EpisodeAwaiting(s))
                => ucErrorFlag[s])
    /\ [][\A s \in Seats :
            /\ QueueGrows(s) => ucErrorFlag[s]
            /\ (DecideStep(s) /\ (SensorReporting(s) \/ EpisodeAwaiting(s)))
                 => ucHeaterState'[s] = mainHEATER_STATE_OFF]_allvars

\* the controller has decided Off while the sensor task is blocked on the full
\* queue with the record of the fourth fault
C34_Witness ==
    \E s \in Seats :
        /\ SensorBlockedOnFullQueue(s)
        /\ hEdges[s] = 4
        /\ ucHeatingLevel[s] # mainHEATING_LEVEL_OFF
        /\ ucDesiredTemperature[s] > ucTemperatureValue[s]
        /\ pcHeater[s] = "update"
        /\ ucHeaterState[s] = mainHEATER_STATE_OFF

(******************* C35: the last commanded heater state *******************)
\* the controller cycle of seat s has passed the update of the LEDs and has not
\* yet given the mutexes
CycleEnd(s) == pcHeater[s] = "give"

\* the update step of a controller cycle of seat s
UpdateStep(s) == pcHeater[s] = "update" /\ pcHeater'[s] = "give"

\* C35: at the end of every controller cycle ucPrevHeaterState of the seat
\* equals its heater state and the green and the blue LED encode that state.
\* The first cycle after the start writes the LEDs, whatever the state, because
\* ucPrevHeaterState starts at 0xFF, which is no heater state; afterwards it
\* never holds 0xFF again.
C35_ShadowFollowsState ==
    /\ [](\A s \in Seats :
            CycleEnd(s) =>
               /\ ucPrevHeaterState[s] = ucHeaterState[s]
               /\ <<ledGreen[s], ledBlue[s]>> = LedEncoding(ucHeaterState[s]))
    /\ [][\A s \in Seats :
            (UpdateStep(s) /\ ucPrevHeaterState[s] = ucPrevHeaterStateInit) =>
               /\ HeaterMustUpdate(ucPrevHeaterState[s], ucHeaterState[s], ucErrorFlag[s])
               /\ ucPrevHeaterState'[s] = ucHeaterState[s]
               /\ ucPrevHeaterState'[s] # ucPrevHeaterStateInit]_allvars

\* a cycle ends with the shadow copy and the state Medium, the error flag
\* clear and the blue LED alone lit
C35_Witness ==
    \E s \in Seats :
        /\ CycleEnd(s)
        /\ ~ucErrorFlag[s]
        /\ ucHeaterState[s] = mainHEATER_STATE_MEDIUM
        /\ ucPrevHeaterState[s] = mainHEATER_STATE_MEDIUM
        /\ ledBlue[s] /\ ~ledGreen[s]

(*************************** C36: the value sets *****************************)
HeatingLevels ==
    {mainHEATING_LEVEL_OFF, mainHEATING_LEVEL_LOW, mainHEATING_LEVEL_MEDIUM,
     mainHEATING_LEVEL_HIGH}

HeaterStates == HeatingStates \cup {mainHEATER_STATE_OFF}

DesiredTemperatures ==
    {mainDESIRED_TEMP_OFF, mainDESIRED_TEMP_LOW, mainDESIRED_TEMP_MEDIUM,
     mainDESIRED_TEMP_HIGH}

HeaterLedTest(s) ==
    /\ pcHeater[s] = "update"
    /\ IF HeaterMustUpdate(ucPrevHeaterState[s], ucHeaterState[s], ucErrorFlag[s])
       THEN /\ ucPrevHeaterState' = [ucPrevHeaterState EXCEPT ![s] = ucHeaterState[s]]
            /\ pcHeater' = [pcHeater EXCEPT ![s] = "greenRead"]
       ELSE /\ pcHeater' = [pcHeater EXCEPT ![s] = "give"]
            /\ UNCHANGED ucPrevHeaterState
    /\ UNCHANGED <<fieldVars, diagVars, xMutex, xErrorReportSemaphore,
                   xDiagnosticQueue, xButtonsEventGroup, ledVars, pcSensor, pcButton,
                   pcDiagnostic, xlogSensor, xlogDiagnostic, envVars, xPortCopy>>

\* the read of *Port_Ptr in Dio_WriteChannel
HeaterDioRead(s, label, next) ==
    /\ pcHeater[s] = label
    /\ xPortCopy' = [xPortCopy EXCEPT ![s] = PortData(s)]
    /\ pcHeater' = [pcHeater EXCEPT ![s] = next]
    /\ UNCHANGED <<fieldVars, diagVars, xMutex, xErrorReportSemaphore,
                   xDiagnosticQueue, xButtonsEventGroup, ledVars, pcSensor, pcButton,
                   pcDiagnostic, localVars, envVars>>

\* the write-back to *Port_Ptr in Dio_WriteChannel: the register takes the
\* value read with the one bit changed
HeaterDioWrite(s, label, next, data) ==
    /\ pcHeater[s] = label
    /\ ledRed' = [ledRed EXCEPT ![s] = data.red]
    /\ ledGreen' = [ledGreen EXCEPT ![s] = data.green]
    /\ ledBlue' = [ledBlue EXCEPT ![s] = data.blue]
    /\ pcHeater' = [pcHeater EXCEPT ![s] = next]
    /\ UNCHANGED <<fieldVars, diagVars, xMutex, xErrorReportSemaphore,
                   xDiagnosticQueue, xButtonsEventGroup, pcSensor, pcButton,
                   pcDiagnostic, localVars, envVars, xPortCopy>>

\* Led_GREEN1_SetOn() or Led_GREEN1_SetOff(), the first call of every case
HeaterGreenRead(s) == HeaterDioRead(s, "greenRead", "greenWrite")

HeaterGreenWrite(s) ==
    HeaterDioWrite(s, "greenWrite", "blueRead",
                   [xPortCopy[s] EXCEPT !.green = GreenOf(ucHeaterState[s])])

\* Led_BLUE1_SetOn() or Led_BLUE1_SetOff(), the second call of every case
HeaterBlueRead(s) == HeaterDioRead(s, "blueRead", "blueWrite")

HeaterBlueWrite(s) ==
    HeaterDioWrite(s, "blueWrite", "give",
                   [xPortCopy[s] EXCEPT !.blue = BlueOf(ucHeaterState[s])])

\* a step of the heater task of seat s that reads or writes the port register
DioRun(s, A) == s \in running /\ A /\ Observe /\ UNCHANGED <<hSwitch, reportVars>>

\* the heater task with its LED writes in two steps each
vHeaterDioTask(s) ==
    \/ Run(s, HeaterTakeDesiredTemp(s))
    \/ Run(s, HeaterTakeHeaterState(s))
    \/ Run(s, HeaterTakeHeatingLevel(s))
    \/ Run(s, HeaterTakeTempValue(s))
    \/ Run(s, HeaterDecide(s))
    \/ DioRun(s, HeaterLedTest(s))
    \/ DioRun(s, HeaterGreenRead(s))
    \/ DioRun(s, HeaterGreenWrite(s))
    \/ DioRun(s, HeaterBlueRead(s))
    \/ DioRun(s, HeaterBlueWrite(s))
    \/ Run(s, HeaterGive(s))

\* a scheduler that takes the sensor task for blocked at every point
SensorNeverReady(s) == FALSE

\* the sensor task of seat s (priority 4) is ready: it is past the take of
\* its mutex and does not wait for room in the queue.  At the take it may
\* still be in vTaskDelayUntil or wait for the mutex.
SensorReady(s) ==
    /\ s \in running
    /\ \/ pcSensor[s] \in {"sample", "check", "give", "redOff"}
       \/ pcSensor[s] = "send" /\ Len(xDiagnosticQueue[s]) < uxQueueLength

\* the diagnostic task of seat s (priority 2) is ready: it does not wait for
\* the semaphore, the mutex or a record
DiagnosticReady(s) ==
    /\ s \in running
    /\ CASE pcDiagnostic[s] = "wait" -> xErrorReportSemaphore[s] = 1
         [] pcDiagnostic[s] = "takeMutex" -> MutexFree(s, HeaterStateMutex)
         [] pcDiagnostic[s] = "receive" -> xDiagnosticQueue[s] # <<>>
         [] OTHER -> TRUE

\* the sensor, diagnostic and heater tasks under the fixed-priority scheduler
\* (priorities 4, 2 and 1): a task runs only while no task of higher priority
\* is ready
NextPort ==
    \/ \E s \in Seats : vSensorProcessTask(s)
    \/ \E s \in Seats :
          /\ \A t \in Seats : ~SensorReady(t)
          /\ vDiagnosticTask(s)
    \/ \E s \in Seats :
          /\ \A t \in Seats : ~SensorReady(t) /\ ~DiagnosticReady(t)
          /\ vHeaterDioTask(s)

\* one seat at a time, two fault edges
SpecPort == InitSeat(MaxFaultEdges, LogSamples) /\ [][NextPort]_allvars

\* the heater task of seat s has read the port register and not written it back
HeaterBetweenReadAndWrite(s) == pcHeater[s] \in {"greenWrite", "blueWrite"}

\* the write that switches the red LED of seat s off
RedOffStep(s) == pcSensor[s] = "redOff" /\ pcSensor'[s] # "redOff"

\* the write that switches the red LED of seat s on
RedOnStep(s) == pcDiagnostic[s] = "redOn" /\ pcDiagnostic'[s] # "redOn"

=============================================================================
